---------------------------- MODULE Spec2Model ----------------------------
(***************************************************************************)
(* A model of the bin-packing local-search program: the State class        *)
(* (core/state.py), the ObjectiveFunction (core/objective_function.py),    *)
(* the heuristic constructors (core/initializer.py) and the search drivers *)
(* (algorithms/*.py).                                                      *)
(*                                                                         *)
(* Items are numbered 1..n in the insertion order of the catalog dict; a   *)
(* catalog is the sequence of their sizes.  Python lists are objects: the  *)
(* State operations are modelled on a heap of list objects, so that        *)
(* sharing between a State and its copy is something the model can show.   *)
(* Indices passed to the State operations are Python's (0-based, negative  *)
(* indices count from the end).                                            *)
(***************************************************************************)
EXTENDS Integers, Sequences, FiniteSets, TLC

\* ------------------------------------------------------------------ bounds
\* Largest catalog whose every arrangement is explored.
MaxItems == 3

\* Largest max_iterations (iterations, generations) a driver is given.
MaxIterations == 3

\* Largest max_sideways_moves a SidewaysMoveHillClimbing is given.
MaxSideways == 2

\* Largest max_restarts a RandomRestartHillClimbing is given.
MaxRestarts == 3

\* Largest population_size a GeneticAlgorithm is given.
MaxPopulation == 2

\* Largest max_iterations (generations) a GeneticAlgorithm is given.
MaxGenerations == 2

\* ----------------------------------------------------------------- helpers
Range(s) == {s[i] : i \in DOMAIN s}

RECURSIVE SumSeq(_)
SumSeq(s) ==
    IF Len(s) = 0 THEN 0
    ELSE IF Len(s) = 1 THEN s[1]
    ELSE SumSeq(SubSeq(s, 1, Len(s) \div 2))
         + SumSeq(SubSeq(s, (Len(s) \div 2) + 1, Len(s)))

RECURSIVE Flatten(_)
Flatten(ss) ==
    IF Len(ss) = 0 THEN <<>>
    ELSE IF Len(ss) = 1 THEN ss[1]
    ELSE Flatten(SubSeq(ss, 1, Len(ss) \div 2))
         \o Flatten(SubSeq(ss, (Len(ss) \div 2) + 1, Len(ss)))

\* Number of positions of seq s holding x.
Count(s, x) == Cardinality({i \in DOMAIN s : s[i] = x})

\* The j-th smallest element of a finite set of integers.
NthSmallest(C, j) == CHOOSE c \in C : Cardinality({d \in C : d <= c}) = j

\* The permutations of 1..n, as sequences.
Perms(n) == {p \in [1..n -> 1..n] : \A i, j \in 1..n : p[i] = p[j] => i = j}

\* Sequence p cut into consecutive non-empty blocks after the positions in cuts.
Split(p, cuts) ==
    LET k == Cardinality(cuts) + 1
        first(j) == IF j = 1 THEN 1 ELSE NthSmallest(cuts, j - 1) + 1
        last(j)  == IF j = k THEN Len(p) ELSE NthSmallest(cuts, j)
    IN [j \in 1..k |-> SubSeq(p, first(j), last(j))]

\* Every list of non-empty lists that holds each of 1..n exactly once.
Arrangements(n) ==
    IF n = 0 THEN {<<>>}
    ELSE {Split(p, cuts) : p \in Perms(n), cuts \in SUBSET (1..(n - 1))}

InsertAt(s, i, x) == SubSeq(s, 1, i - 1) \o <<x>> \o SubSeq(s, i, Len(s))

\* The arrangements of 1..n, and each with one empty container put anywhere.
ArrangementsWithEmpty(n) ==
    Arrangements(n) \cup
    UNION {{InsertAt(cs, i, <<>>) : i \in 1..(Len(cs) + 1)} : cs \in Arrangements(n)}

\* ------------------------------------------------------- Python list model
\* list.index(x): the position of the first occurrence of x (x is in s).
FirstIndex(s, x) == CHOOSE i \in DOMAIN s : s[i] = x /\ \A j \in 1..(i - 1) : s[j] # x

\* A remove that leaves the list as it is.
list_remove_nothing(s, x) == s

\* list.remove(x): the list without the first occurrence of x (x is in s).
list_remove(s, x) ==
    [i \in 1..(Len(s) - 1) |-> IF i < FirstIndex(s, x) THEN s[i] ELSE s[i + 1]]

\* lst[i] for a list of n elements: the 1-based position, or 0 (IndexError).
PyIndex(n, i) ==
    IF i >= 0 /\ i < n THEN i + 1
    ELSE IF i < 0 /\ i >= -n THEN n + i + 1
    ELSE 0

\* ------------------------------------------------------------ State class
\* A State value: the catalog, the capacity and the containers' contents.
State(items, capacity, containers) ==
    [items |-> items, capacity |-> capacity, containers |-> containers]

NoState == [items |-> <<>>, capacity |-> 0, containers |-> <<<<-1>>>>]

\* A State object on a heap h of list objects: field containers is the
\* address of the outer list, whose elements are addresses of inner lists.
StateObj(items, capacity, addr) ==
    [items |-> items, capacity |-> capacity, containers |-> addr]

\* The State value a State object denotes on heap h.
deref(h, st) ==
    State(st.items, st.capacity,
          [i \in 1..Len(h[st.containers]) |-> h[h[st.containers][i]]])

\* A heap holding the lists of a State value, and the object on it.
HeapOf(S) == S.containers \o <<[i \in 1..Len(S.containers) |-> i]>>

ObjOf(S) == StateObj(S.items, S.capacity, Len(S.containers) + 1)

get_container_load(S, container_idx) ==
    SumSeq([k \in 1..Len(S.containers[container_idx + 1]) |->
               S.items[S.containers[container_idx + 1][k]]])

get_container_remaining(S, container_idx) ==
    S.capacity - get_container_load(S, container_idx)

is_valid(S) ==
    \A i \in 0..(Len(S.containers) - 1) : ~(get_container_load(S, i) > S.capacity)

num_containers(S) ==
    Cardinality({i \in 1..Len(S.containers) : Len(S.containers[i]) > 0})

\* copy that builds a new outer list around the receiver's inner lists.
copy_shallow(h, st) ==
    [heap |-> Append(h, h[st.containers]),
     state |-> [st EXCEPT !.containers = Len(h) + 1]]

\* State.copy: copy.deepcopy allocates a new outer list and new inner lists.
copy(h, st) ==
    LET outer == h[st.containers]
        n     == Len(outer)
        h1    == h \o [i \in 1..n |-> h[outer[i]]]
    IN [heap  |-> Append(h1, [i \in 1..n |-> Len(h) + i]),
        state |-> [st EXCEPT !.containers = Len(h) + n + 1]]

Raised(h, err) == [error |-> err, heap |-> h, state |-> NoState]

\* The comprehension left out: empty containers stay.
NotPruned(h, st) == [error |-> "none", heap |-> h, state |-> st]

\* new_state.containers = [c for c in new_state.containers if len(c) > 0]
Pruned(h, st) ==
    LET kept == SelectSeq(h[st.containers], LAMBDA a : Len(h[a]) > 0)
    IN [error |-> "none", heap |-> Append(h, kept),
        state |-> [st EXCEPT !.containers = Len(h) + 1]]

\* State.move_item on heap h with receiver st.
move_item(h, st, item_id, from_idx, to_idx) ==
    LET c     == copy(h, st)
        ns    == c.state
        h1    == c.heap
        outer == h1[ns.containers]
        n     == Len(outer)
        f     == PyIndex(n, from_idx)
    IN IF f = 0 THEN Raised(h1, "IndexError")
       ELSE IF item_id \notin Range(h1[outer[f]]) THEN Raised(h1, "ValueError")
       ELSE LET h2 == [h1 EXCEPT ![outer[f]] = list_remove(@, item_id)]
            IN IF to_idx = -1 \/ to_idx >= n
               THEN Pruned([Append(h2, <<item_id>>)
                               EXCEPT ![ns.containers] = Append(@, Len(h2) + 1)], ns)
               ELSE IF PyIndex(n, to_idx) = 0 THEN Raised(h2, "IndexError")
               ELSE Pruned([h2 EXCEPT ![outer[PyIndex(n, to_idx)]] =
                                          Append(@, item_id)], ns)

\* A swap that removes an item only where it finds it
\* (if item in container: container.remove(item)) and goes on.
swap_items_lenient(h, st, item1_id, container1_idx, item2_id, container2_idx) ==
    LET c     == copy(h, st)
        ns    == c.state
        h1    == c.heap
        outer == h1[ns.containers]
        n     == Len(outer)
        a     == PyIndex(n, container1_idx)
        b     == PyIndex(n, container2_idx)
    IN IF a = 0 \/ b = 0 THEN Raised(h1, "IndexError")
       ELSE LET h2 == IF item1_id \in Range(h1[outer[a]])
                      THEN [h1 EXCEPT ![outer[a]] = list_remove(@, item1_id)]
                      ELSE h1
                h3 == IF item2_id \in Range(h2[outer[b]])
                      THEN [h2 EXCEPT ![outer[b]] = list_remove(@, item2_id)]
                      ELSE h2
                h4 == [h3 EXCEPT ![outer[a]] = Append(@, item2_id)]
                h5 == [h4 EXCEPT ![outer[b]] = Append(@, item1_id)]
            IN Pruned(h5, ns)

\* State.swap_items on heap h with receiver st.
swap_items(h, st, item1_id, container1_idx, item2_id, container2_idx) ==
    LET c     == copy(h, st)
        ns    == c.state
        h1    == c.heap
        outer == h1[ns.containers]
        n     == Len(outer)
        a     == PyIndex(n, container1_idx)
        b     == PyIndex(n, container2_idx)
    IN IF a = 0 THEN Raised(h1, "IndexError")
       ELSE IF item1_id \notin Range(h1[outer[a]]) THEN Raised(h1, "ValueError")
       ELSE LET h2 == [h1 EXCEPT ![outer[a]] = list_remove(@, item1_id)]
            IN IF b = 0 THEN Raised(h2, "IndexError")
               ELSE IF item2_id \notin Range(h2[outer[b]]) THEN Raised(h2, "ValueError")
               ELSE LET h3 == [h2 EXCEPT ![outer[b]] = list_remove(@, item2_id)]
                        h4 == [h3 EXCEPT ![outer[a]] = Append(@, item2_id)]
                        h5 == [h4 EXCEPT ![outer[b]] = Append(@, item1_id)]
                    IN Pruned(h5, ns)

\* Every catalog item is in exactly one container, once.
IsPartition(S) ==
    /\ \A it \in DOMAIN S.items : Count(Flatten(S.containers), it) = 1
    /\ Range(Flatten(S.containers)) \subseteq DOMAIN S.items

NoEmptyContainer(S) == \A i \in DOMAIN S.containers : Len(S.containers[i]) > 0


\* ------------------------------------------------------ ObjectiveFunction
\* The default weights of ObjectiveFunction.__init__.
penalty_overload_weight == 10000

container_count_weight == 100

density_bonus_weight == -10

Square(x) == x * x

\* Sum over every container of (load - capacity)^2 where load > capacity.
calculate_overload_penalty(S) ==
    SumSeq([i \in 1..Len(S.containers) |->
               IF get_container_load(S, i - 1) > S.capacity
               THEN Square(get_container_load(S, i - 1) - S.capacity)
               ELSE 0])

\* _calculate_density_score times capacity^2: the code returns
\* -(sum over non-empty containers of (load / capacity)^2), a fraction whose
\* denominator is capacity^2; the model keeps its numerator.
calculate_density_score(S) ==
    -SumSeq([i \in 1..Len(S.containers) |->
                IF Len(S.containers[i]) > 0
                THEN Square(get_container_load(S, i - 1))
                ELSE 0])

\* The density score with the sign of the code's "return -total_density" lost.
calculate_weighted_wrong_sign(S, Wo, Wc, Wd) ==
    calculate_overload_penalty(S) * Wo * Square(S.capacity)
    + num_containers(S) * Wc * Square(S.capacity)
    - calculate_density_score(S) * Wd

\* ObjectiveFunction.calculate with weights Wo, Wc, Wd, times capacity^2
\* (capacity > 0): exact integer arithmetic in place of the code's floats, and
\* values of States of one capacity compare as the code's values do.
calculate_weighted(S, Wo, Wc, Wd) ==
    calculate_overload_penalty(S) * Wo * Square(S.capacity)
    + num_containers(S) * Wc * Square(S.capacity)
    + calculate_density_score(S) * Wd

\* calculate of an ObjectiveFunction() built with the default weights.
calculate(S) ==
    calculate_weighted(S, penalty_overload_weight, container_count_weight,
                       density_bonus_weight)

\* ------------------------------------------------- heuristic constructors
\* sorted(pairs, key = first component, reverse = True): stable, descending.
RECURSIVE InsertDesc(_, _)
InsertDesc(sorted, x) ==
    IF sorted = <<>> THEN <<x>>
    ELSE IF sorted[1][1] >= x[1] THEN <<sorted[1]>> \o InsertDesc(Tail(sorted), x)
    ELSE <<x>> \o sorted

RECURSIVE SortedDesc(_)
SortedDesc(pairs) ==
    IF pairs = <<>> THEN <<>>
    ELSE InsertDesc(SortedDesc(SubSeq(pairs, 1, Len(pairs) - 1)), pairs[Len(pairs)])

\* list(items.items()), sorted by size descending when sort_items: item ids.
ItemList(items, sort_items) ==
    IF sort_items
    THEN LET srt == SortedDesc([i \in 1..Len(items) |-> <<items[i], i>>])
         IN [k \in 1..Len(items) |-> srt[k][2]]
    ELSE [i \in 1..Len(items) |-> i]

LoadOf(items, container) ==
    SumSeq([k \in 1..Len(container) |-> items[container[k]]])

\* The containers that can take one more item of size item_size.
Fitting(items, capacity, containers, item_size) ==
    {i \in 1..Len(containers) : LoadOf(items, containers[i]) + item_size <= capacity}

Min(C) == CHOOSE c \in C : \A d \in C : c <= d

\* first_fit's loop: each item into the first container it fits, else a new one.
RECURSIVE FirstFitLoop(_, _, _, _)
FirstFitLoop(items, capacity, item_list, containers) ==
    IF item_list = <<>> THEN containers
    ELSE LET item_id == item_list[1]
             fit == Fitting(items, capacity, containers, items[item_id])
         IN FirstFitLoop(items, capacity, Tail(item_list),
                IF fit # {}
                THEN [containers EXCEPT ![Min(fit)] = Append(@, item_id)]
                ELSE Append(containers, <<item_id>>))

first_fit(items, capacity, sort_items) ==
    State(items, capacity,
          FirstFitLoop(items, capacity, ItemList(items, sort_items), <<>>))

\* best_fit's loop: the first container of least remaining room that fits.
RECURSIVE BestFitLoop(_, _, _, _)
BestFitLoop(items, capacity, item_list, containers) ==
    IF item_list = <<>> THEN containers
    ELSE LET item_id == item_list[1]
             fit == Fitting(items, capacity, containers, items[item_id])
             remaining(i) == capacity - LoadOf(items, containers[i])
             best == Min({i \in fit : \A j \in fit : remaining(i) <= remaining(j)})
         IN BestFitLoop(items, capacity, Tail(item_list),
                IF fit # {}
                THEN [containers EXCEPT ![best] = Append(@, item_id)]
                ELSE Append(containers, <<item_id>>))

best_fit(items, capacity, sort_items) ==
    State(items, capacity,
          BestFitLoop(items, capacity, ItemList(items, sort_items), <<>>))

\* next_fit's loop: the last container if the item fits, else a new one.
RECURSIVE NextFitLoop(_, _, _, _)
NextFitLoop(items, capacity, item_list, containers) ==
    IF item_list = <<>> THEN containers
    ELSE LET item_id == item_list[1]
             last == containers[Len(containers)]
         IN NextFitLoop(items, capacity, Tail(item_list),
                IF LoadOf(items, last) + items[item_id] <= capacity
                THEN [containers EXCEPT ![Len(containers)] = Append(@, item_id)]
                ELSE Append(containers, <<item_id>>))

next_fit(items, capacity, sort_items) ==
    State(items, capacity,
          SelectSeq(NextFitLoop(items, capacity, ItemList(items, sort_items), <<<<>>>>),
                    LAMBDA c : Len(c) > 0))

greedy_fit(items, capacity) == best_fit(items, capacity, TRUE)

\* random_fit's loop: each item goes to any container with room, or to a
\* new container when none has; every outcome.
RECURSIVE RandomFitLoop(_, _, _, _)
RandomFitLoop(items, capacity, item_list, containers) ==
    IF item_list = <<>> THEN {containers}
    ELSE LET item_id == item_list[1]
             valid_containers ==
                 {i \in 1..Len(containers) :
                     LoadOf(items, containers[i]) + items[item_id] <= capacity}
         IN IF valid_containers # {}
            THEN UNION {RandomFitLoop(items, capacity, Tail(item_list),
                            [containers EXCEPT ![i] = Append(@, item_id)])
                           : i \in valid_containers}
            ELSE RandomFitLoop(items, capacity, Tail(item_list),
                               Append(containers, <<item_id>>))

\* BinPackingInitializer.random_fit: every State it can return, over the
\* shuffles of the item list and the choices of container.
random_fit(items, capacity) ==
    UNION {{State(items, capacity, cs) :
               cs \in RandomFitLoop(items, capacity, p, <<>>)}
              : p \in Perms(Len(items))}

\* BinPackingInitializer.empty_state: containers = [[]].
empty_state(items, capacity) == State(items, capacity, <<<<>>>>)

\* BinPackingInitializer.single_container_per_item.
single_container_per_item(items, capacity) ==
    State(items, capacity, [i \in 1..Len(items) |-> <<i>>])

\* ------------------------------------------------------------- variables
VARIABLES
    \* One call of a State operation on a heap of list objects.
    heap,            \* the list objects
    recv,            \* the receiver, a State object
    recv_before,     \* the State value the receiver denoted when called
    call,            \* the call made: operation and arguments
    result,          \* what the call produced: error, heap, state
    sphase,          \* "fresh", "called", "mutated" ("idle" in other specifications)
    \* One search driver object and its run.
    alg,             \* which driver class
    pc,              \* where the driver is: "constructed", in solve(), "done"
    caller_state,    \* the State the caller passed to the constructor
    initial_state,   \* BaseLocalSearchAlgorithm fields
    current_state,
    best_state,
    best_value,
    history,
    iteration_count,
    max_iterations,
    current_value,   \* solve()'s local
    hc,              \* hill-climbing fields: stuck_iteration, stuck_reason, sideways
    sa,              \* SimulatedAnnealing fields and solve()'s locals
    ga,              \* GeneticAlgorithm fields and solve()'s locals
    rr,              \* RandomRestartHillClimbing fields and solve()'s locals
    returned,        \* what solve() returned (<<>> before it returns)
    \* One evaluation of the objective function on two States.
    objA,
    objB,
    valA,
    valB,
    ophase,          \* "input", "built", "evaluated" ("idle" in other specifications)
    \* One call of tournament_selection.
    t_fitness_list,  \* its argument
    t_sample,        \* the k indices drawn: selected_list's second components
    t_parents,       \* the population indices of the parents returned
    tphase,          \* "input", "sampled", "selected" ("idle" in other specifications)
    \* Two driver instances built on the same inputs, and the generator
    \* of module random they share.
    rng,             \* seeded or not, draws made since seeding, the seed's stream
    pair,            \* the inputs and the two instances ("idle" in other specifications)
    \* One construction of a State.
    build,           \* the arguments, the constructor, what it produced
    \* A caller's State object and the drivers run on it, on a heap of lists.
    reuse            \* the heap, the driver's references, the run's position

stateVars == <<heap, recv, recv_before, call, result, sphase>>

baseVars == <<alg, pc, caller_state, initial_state, current_state, best_state,
              best_value, history, iteration_count, max_iterations, current_value,
              returned>>

objVars == <<objA, objB, valA, valB, ophase>>

tourVars == <<t_fitness_list, t_sample, t_parents, tphase>>

pairVars == <<rng, pair>>

buildVars == <<build>>

reuseVars == <<reuse>>

vars == <<reuseVars, pairVars, buildVars, stateVars, objVars, tourVars, baseVars, hc, sa, ga, rr>>

\* What the actions of a hill-climbing driver leave alone.
nonHC == <<reuseVars, pairVars, buildVars, stateVars, objVars, tourVars, sa, ga, rr>>

\* ---------------------------------------------------------------- inputs
\* The catalog of n items explored exhaustively: sizes 2, 3, 2, 3, ...
\* with capacity 5, so that containers can be full, spare or overloaded.
ItemSize(i) == IF i % 2 = 1 THEN 2 ELSE 3

Catalog(n) == [i \in 1..n |-> ItemSize(i)]

CatalogCapacity == 5

\* --------------------------------------------------- neighbor generation
\* The State value move_item / swap_items return for a State value.
MoveItemV(S, item_id, from_idx, to_idx) ==
    LET r == move_item(HeapOf(S), ObjOf(S), item_id, from_idx, to_idx)
    IN deref(r.heap, r.state)

SwapItemsV(S, item1_id, c1, item2_id, c2) ==
    LET r == swap_items(HeapOf(S), ObjOf(S), item1_id, c1, item2_id, c2)
    IN deref(r.heap, r.state)

CopyV(S) ==
    LET r == copy(HeapOf(S), ObjOf(S)) IN deref(r.heap, r.state)

\* The move candidates of one item without the move to a new container.
MovesOfItem_existing_only(S, from_idx, item_id) ==
    LET n == Len(S.containers)
    IN [t \in 1..(n - 1) |->
           MoveItemV(S, item_id, from_idx, IF t - 1 < from_idx THEN t - 1 ELSE t)]

\* The move candidates of one item, in the code's order: every other
\* existing container by index, then a new container.
MovesOfItem(S, from_idx, item_id) ==
    LET n == Len(S.containers)
    IN [t \in 1..(n - 1) |->
           MoveItemV(S, item_id, from_idx, IF t - 1 < from_idx THEN t - 1 ELSE t)]
       \o <<MoveItemV(S, item_id, from_idx, -1)>>

MoveNeighbors(S) ==
    Flatten([f \in 1..Len(S.containers) |->
        Flatten([k \in 1..Len(S.containers[f]) |->
            MovesOfItem(S, f - 1, S.containers[f][k])])])

SwapNeighbors(S) ==
    Flatten([i \in 1..Len(S.containers) |->
        Flatten([k \in 1..Len(S.containers[i]) |->
            Flatten([j \in 1..Len(S.containers) |->
                IF j > i
                THEN [m \in 1..Len(S.containers[j]) |->
                        SwapItemsV(S, S.containers[i][k], i - 1,
                                      S.containers[j][m], j - 1)]
                ELSE <<>>])])])

\* HillClimbingBase.generate_all_neighbors: the candidate States, in order.
generate_all_neighbors(S) == MoveNeighbors(S) \o SwapNeighbors(S)

evaluate_state(S) == calculate(S)

\* update_best_state with the comparison turned round.
update_best_state_wrong(bs, bv, new_state, new_value) ==
    IF new_value > bv
    THEN [state |-> CopyV(new_state), value |-> new_value]
    ELSE [state |-> bs, value |-> bv]

\* BaseLocalSearchAlgorithm.update_best_state: the new best_state, best_value.
update_best_state(bs, bv, new_state, new_value) ==
    IF new_value < bv
    THEN [state |-> CopyV(new_state), value |-> new_value]
    ELSE [state |-> bs, value |-> bv]

\* ------------------------------------------------------- driver objects
HCInitial(max_sideways) ==
    [stuck_iteration |-> <<>>, stuck_reason |-> "None",
     sideways_count |-> 0, max_sideways_moves |-> max_sideways]

\* BaseLocalSearchAlgorithm.__init__ on the caller's State S: three copies,
\* the first history entry, and the subclass's max_iterations.
Constructed(a, S, maxit) ==
    /\ alg = a
    /\ pc = "constructed"
    /\ caller_state = S
    /\ initial_state = CopyV(S)
    /\ current_state = CopyV(S)
    /\ best_state = CopyV(S)
    /\ best_value = calculate(CopyV(S))
    /\ history = <<calculate(CopyV(S))>>
    /\ iteration_count = 0
    /\ max_iterations = maxit
    /\ current_value = 0
    /\ returned = <<>>

\* The States a caller builds a driver on: every arrangement of a catalog
\* of up to MaxItems items (the empty catalog has the one State of no
\* containers, as first_fit({}) returns).
CallerStates ==
    UNION {{State(Catalog(n), CatalogCapacity, cs) : cs \in Arrangements(n)}
              : n \in 0..MaxItems}

StateIdle ==
    /\ heap = <<>>
    /\ recv = NoState
    /\ recv_before = NoState
    /\ call = <<>>
    /\ result = <<>>
    /\ sphase = "idle"

ObjIdle ==
    /\ objA = NoState
    /\ objB = NoState
    /\ valA = 0
    /\ valB = 0
    /\ ophase = "idle"

TourIdle ==
    /\ t_fitness_list = <<>>
    /\ t_sample = <<>>
    /\ t_parents = <<>>
    /\ tphase = "idle"

PairIdle ==
    /\ rng = <<>>
    /\ pair = <<>>

BuildIdle == build = <<>>

ReuseIdle == reuse = <<>>

\* record_iteration and the move to the next State, shared by the drivers.
Advance(new_state, new_value) ==
    LET b == update_best_state(best_state, best_value, new_state, new_value)
    IN /\ current_state' = new_state
       /\ current_value' = new_value
       /\ best_state' = b.state
       /\ best_value' = b.value
       /\ history' = Append(history, new_value)
       /\ iteration_count' = iteration_count + 1

Return(S) ==
    /\ pc' = "done"
    /\ returned' = <<S>>

\* --------------------------------------------- SteepestAscentHillClimbing
SteepestInit ==
    \E S \in CallerStates, maxit \in 0..MaxIterations :
        /\ Constructed("steepest", S, maxit)
        /\ hc = HCInitial(0)
        /\ sa = <<>> /\ ga = <<>> /\ rr = <<>>

\* solve() up to its loop.
SteepestBegin ==
    /\ alg = "steepest" /\ pc = "constructed"
    /\ current_value' = evaluate_state(current_state)
    /\ pc' = "loop"
    /\ UNCHANGED <<nonHC, alg, caller_state, initial_state, current_state,
                   best_state, best_value, history, iteration_count,
                   max_iterations, returned, hc>>

\* The first neighbor below current, whatever the others are worth.
SteepestChoice_first_better(neighbors, value) ==
    LET better == {i \in DOMAIN neighbors : evaluate_state(neighbors[i]) < value}
    IN IF better = {} THEN 0 ELSE Min(better)

\* The first neighbor of least value, when that value is below current: its
\* position in neighbors, or 0.
SteepestChoice(neighbors, value) ==
    LET v(i) == evaluate_state(neighbors[i])
        better == {i \in DOMAIN neighbors :
                      /\ v(i) < value
                      /\ \A j \in DOMAIN neighbors : v(i) <= v(j)}
    IN IF better = {} THEN 0 ELSE Min(better)

\* len(neighbors) == 0: break
SteepestNoNeighbors ==
    /\ alg = "steepest" /\ pc = "loop"
    /\ iteration_count < max_iterations
    /\ Len(generate_all_neighbors(current_state)) = 0
    /\ Return(best_state)
    /\ UNCHANGED <<nonHC, alg, caller_state, initial_state, current_state,
                   best_state, best_value, history, iteration_count,
                   max_iterations, current_value, hc>>

\* best_neighbor is None: stuck at a local optimum.
SteepestStuck ==
    /\ alg = "steepest" /\ pc = "loop"
    /\ iteration_count < max_iterations
    /\ LET neighbors == generate_all_neighbors(current_state)
       IN /\ Len(neighbors) # 0
          /\ SteepestChoice(neighbors, current_value) = 0
    /\ hc' = [hc EXCEPT !.stuck_iteration = <<iteration_count>>]
    /\ Return(best_state)
    /\ UNCHANGED <<nonHC, alg, caller_state, initial_state, current_state,
                   best_state, best_value, history, iteration_count,
                   max_iterations, current_value>>

\* Move to the best neighbor.
SteepestMove ==
    /\ alg = "steepest" /\ pc = "loop"
    /\ iteration_count < max_iterations
    /\ LET neighbors == generate_all_neighbors(current_state)
           c == SteepestChoice(neighbors, current_value)
       IN /\ Len(neighbors) # 0
          /\ c # 0
          /\ Advance(neighbors[c], evaluate_state(neighbors[c]))
    /\ UNCHANGED <<nonHC, alg, pc, caller_state, initial_state,
                   max_iterations, returned, hc>>

\* The loop's else clause: the iteration budget is used up.
SteepestExhausted ==
    /\ alg = "steepest" /\ pc = "loop"
    /\ ~(iteration_count < max_iterations)
    /\ hc' = [hc EXCEPT !.stuck_iteration = <<max_iterations>>]
    /\ Return(best_state)
    /\ UNCHANGED <<nonHC, alg, caller_state, initial_state, current_state,
                   best_state, best_value, history, iteration_count,
                   max_iterations, current_value>>

\* print_results: the stuck reason shown for a run, "None" when no line
\* is printed (stuck_iteration is None).
steepest_stuck_reason(h) ==
    IF h.stuck_iteration # <<>> THEN "local_optimum" ELSE "None"

SteepestNext ==
    \/ SteepestBegin
    \/ SteepestNoNeighbors
    \/ SteepestStuck
    \/ SteepestMove
    \/ SteepestExhausted

\* ------------------------------------------------- StochasticHillClimbing
StochasticInit ==
    \E S \in CallerStates, maxit \in 0..MaxIterations :
        /\ Constructed("stochastic", S, maxit)
        /\ hc = HCInitial(0)
        /\ sa = <<>> /\ ga = <<>> /\ rr = <<>>

StochasticBegin ==
    /\ alg = "stochastic" /\ pc = "constructed"
    /\ current_value' = evaluate_state(current_state)
    /\ pc' = "loop"
    /\ UNCHANGED <<nonHC, alg, caller_state, initial_state, current_state,
                   best_state, best_value, history, iteration_count,
                   max_iterations, returned, hc>>

\* The positions of the neighbors strictly below value.
BetterNeighbors(neighbors, value) ==
    {i \in DOMAIN neighbors : evaluate_state(neighbors[i]) < value}

StochasticNoNeighbors ==
    /\ alg = "stochastic" /\ pc = "loop"
    /\ iteration_count < max_iterations
    /\ Len(generate_all_neighbors(current_state)) = 0
    /\ Return(best_state)
    /\ UNCHANGED <<nonHC, alg, caller_state, initial_state, current_state,
                   best_state, best_value, history, iteration_count,
                   max_iterations, current_value, hc>>

StochasticStuck ==
    /\ alg = "stochastic" /\ pc = "loop"
    /\ iteration_count < max_iterations
    /\ LET neighbors == generate_all_neighbors(current_state)
       IN /\ Len(neighbors) # 0
          /\ BetterNeighbors(neighbors, current_value) = {}
    /\ hc' = [hc EXCEPT !.stuck_iteration = <<iteration_count>>]
    /\ Return(best_state)
    /\ UNCHANGED <<nonHC, alg, caller_state, initial_state, current_state,
                   best_state, best_value, history, iteration_count,
                   max_iterations, current_value>>

\* random.choice(better_neighbors): any of them.
StochasticMove ==
    /\ alg = "stochastic" /\ pc = "loop"
    /\ iteration_count < max_iterations
    /\ LET neighbors == generate_all_neighbors(current_state)
       IN \E c \in BetterNeighbors(neighbors, current_value) :
              Advance(neighbors[c], evaluate_state(neighbors[c]))
    /\ UNCHANGED <<nonHC, alg, pc, caller_state, initial_state,
                   max_iterations, returned, hc>>

StochasticExhausted ==
    /\ alg = "stochastic" /\ pc = "loop"
    /\ ~(iteration_count < max_iterations)
    /\ hc' = [hc EXCEPT !.stuck_iteration = <<max_iterations>>]
    /\ Return(best_state)
    /\ UNCHANGED <<nonHC, alg, caller_state, initial_state, current_state,
                   best_state, best_value, history, iteration_count,
                   max_iterations, current_value>>

StochasticNext ==
    \/ StochasticBegin
    \/ StochasticNoNeighbors
    \/ StochasticStuck
    \/ StochasticMove
    \/ StochasticExhausted

\* ----------------------------------------------- SidewaysMoveHillClimbing
SidewaysInit ==
    \E S \in CallerStates, maxit \in 0..MaxIterations, ms \in 0..MaxSideways :
        /\ Constructed("sideways", S, maxit)
        /\ hc = HCInitial(ms)
        /\ sa = <<>> /\ ga = <<>> /\ rr = <<>>

SidewaysBegin ==
    /\ alg = "sideways" /\ pc = "constructed"
    /\ current_value' = evaluate_state(current_state)
    /\ hc' = [hc EXCEPT !.sideways_count = 0]
    /\ pc' = "loop"
    /\ UNCHANGED <<nonHC, alg, caller_state, initial_state, current_state,
                   best_state, best_value, history, iteration_count,
                   max_iterations, returned>>

\* The first neighbor generated, whatever its value.
SidewaysChoice_first(neighbors) == 1

\* The loop compares with <= from float('inf'): the last neighbor of least
\* value is kept, so best_neighbor is set whenever there is a neighbor.
SidewaysChoice(neighbors) ==
    LET v(i) == evaluate_state(neighbors[i])
        least == {i \in DOMAIN neighbors : \A j \in DOMAIN neighbors : v(i) <= v(j)}
    IN CHOOSE i \in least : \A j \in least : j <= i

SidewaysNoNeighbors ==
    /\ alg = "sideways" /\ pc = "loop"
    /\ iteration_count < max_iterations
    /\ Len(generate_all_neighbors(current_state)) = 0
    /\ Return(best_state)
    /\ UNCHANGED <<nonHC, alg, caller_state, initial_state, current_state,
                   best_state, best_value, history, iteration_count,
                   max_iterations, current_value, hc>>

\* best_neighbor_value < current_value
SidewaysImprove ==
    /\ alg = "sideways" /\ pc = "loop"
    /\ iteration_count < max_iterations
    /\ LET neighbors == generate_all_neighbors(current_state)
       IN /\ Len(neighbors) # 0
          /\ LET nb == neighbors[SidewaysChoice(neighbors)]
             IN /\ evaluate_state(nb) < current_value
                /\ Advance(nb, evaluate_state(nb))
    /\ hc' = [hc EXCEPT !.sideways_count = 0]
    /\ UNCHANGED <<nonHC, alg, pc, caller_state, initial_state,
                   max_iterations, returned>>

\* best_neighbor_value == current_value, and the counter is below the limit.
SidewaysMove ==
    /\ alg = "sideways" /\ pc = "loop"
    /\ iteration_count < max_iterations
    /\ LET neighbors == generate_all_neighbors(current_state)
       IN /\ Len(neighbors) # 0
          /\ LET nb == neighbors[SidewaysChoice(neighbors)]
             IN /\ evaluate_state(nb) = current_value
                /\ ~(hc.sideways_count + 1 >= hc.max_sideways_moves)
                /\ Advance(nb, current_value)
    /\ hc' = [hc EXCEPT !.sideways_count = @ + 1]
    /\ UNCHANGED <<nonHC, alg, pc, caller_state, initial_state,
                   max_iterations, returned>>

\* best_neighbor_value == current_value, and the counter reaches the limit.
SidewaysLimit ==
    /\ alg = "sideways" /\ pc = "loop"
    /\ iteration_count < max_iterations
    /\ LET neighbors == generate_all_neighbors(current_state)
       IN /\ Len(neighbors) # 0
          /\ evaluate_state(neighbors[SidewaysChoice(neighbors)]) = current_value
    /\ hc.sideways_count + 1 >= hc.max_sideways_moves
    /\ hc' = [hc EXCEPT !.sideways_count = @ + 1,
                        !.stuck_iteration = <<iteration_count>>,
                        !.stuck_reason = "max_sideways_reached"]
    /\ Return(best_state)
    /\ UNCHANGED <<nonHC, alg, caller_state, initial_state, current_state,
                   best_state, best_value, history, iteration_count,
                   max_iterations, current_value>>

\* best_neighbor_value > current_value
SidewaysLocalOptimum ==
    /\ alg = "sideways" /\ pc = "loop"
    /\ iteration_count < max_iterations
    /\ LET neighbors == generate_all_neighbors(current_state)
       IN /\ Len(neighbors) # 0
          /\ evaluate_state(neighbors[SidewaysChoice(neighbors)]) > current_value
    /\ hc' = [hc EXCEPT !.stuck_iteration = <<iteration_count>>,
                        !.stuck_reason = "local_optimum"]
    /\ Return(best_state)
    /\ UNCHANGED <<nonHC, alg, caller_state, initial_state, current_state,
                   best_state, best_value, history, iteration_count,
                   max_iterations, current_value>>

\* The loop ends without a break; this solve() has no else clause.
SidewaysExhausted ==
    /\ alg = "sideways" /\ pc = "loop"
    /\ ~(iteration_count < max_iterations)
    /\ Return(best_state)
    /\ UNCHANGED <<nonHC, alg, caller_state, initial_state, current_state,
                   best_state, best_value, history, iteration_count,
                   max_iterations, current_value, hc>>

SidewaysNext ==
    \/ SidewaysBegin
    \/ SidewaysNoNeighbors
    \/ SidewaysImprove
    \/ SidewaysMove
    \/ SidewaysLimit
    \/ SidewaysLocalOptimum
    \/ SidewaysExhausted

\* The stop reason reported for a hill-climbing run: get_statistics gives
\* stuck_at_iteration (and stuck_reason for the sideways variant only), and
\* the reason shown is statistics.get('stuck_reason', 'local_optimum') when
\* stuck_at_iteration is not None; "None" stands for no reason.
shown_stuck_reason(a, h) ==
    IF h.stuck_iteration = <<>> THEN "None"
    ELSE IF a = "sideways" THEN h.stuck_reason
    ELSE "local_optimum"

\* ----------------------------------------------------- SimulatedAnnealing
\* A temperature or cooling rate is a fraction num/den with den > 0.
Frac(num, den) == [num |-> num, den |-> den]

FracTimes(x, y) == Frac(x.num * y.num, x.den * y.den)

FracPositive(x) == x.num > 0

\* The (initial_temp, cooling_rate) pairs a SimulatedAnnealing is given: the
\* defaults 100 and 0.99, a zero temperature, a negative one, and a negative
\* cooling rate (the temperature changes sign at every iteration).
TempParams ==
    {<<Frac(100, 1), Frac(99, 100)>>,
     <<Frac(0, 1), Frac(99, 100)>>,
     <<Frac(-5, 1), Frac(1, 2)>>,
     <<Frac(100, 1), Frac(-1, 2)>>}

\* Ten iterations without progress make one stuck episode.
StuckThreshold == 10

\* An acceptance probability: 1.0, 0.0, or math.exp(-delta / temperature).
ProbOne == [kind |-> "one", delta |-> 0, temp |-> Frac(0, 1)]

ProbZero == [kind |-> "zero", delta |-> 0, temp |-> Frac(0, 1)]

ProbExp(delta, temp) == [kind |-> "exp", delta |-> delta, temp |-> temp]

\* The exponential taken whatever the temperature.
acceptance_prob_unguarded(delta, temperature) == ProbExp(delta, temperature)

\* The probability computed for a neighbor with delta > 0.
acceptance_prob(delta, temperature) ==
    IF FracPositive(temperature) THEN ProbExp(delta, temperature) ELSE ProbZero

SAInit ==
    \E S \in CallerStates, maxit \in 0..MaxIterations, tp \in TempParams :
        /\ Constructed("sa", S, maxit)
        /\ hc = <<>> /\ ga = <<>> /\ rr = <<>>
        /\ sa = [initial_temp |-> tp[1], cooling_rate |-> tp[2],
                 stuck_count |-> 0, acceptance_probs |-> <<>>,
                 temperatures |-> <<>>, accepted_worse_count |-> 0,
                 \* solve()'s locals, not yet set
                 current_state |-> NoState, temperature |-> Frac(0, 1),
                 prev_best_value |-> 0, stuck_counter |-> 0,
                 neighbor_state |-> NoState, accepted |-> FALSE]

nonSA == <<reuseVars, pairVars, buildVars, stateVars, objVars, tourVars, hc, ga, rr>>

NonEmpty(S) == {i \in 1..Len(S.containers) : Len(S.containers[i]) > 0}

\* A random move that may also open a new container.
random_move_or_new(S) ==
    IF NonEmpty(S) = {} THEN {CopyV(S)}
    ELSE UNION {
            {MoveItemV(S, item_id, f - 1, t - 1) :
                item_id \in Range(S.containers[f]),
                t \in ((1..Len(S.containers)) \ {f}) \cup {0}}
            : f \in NonEmpty(S)}

\* _random_move: every State it can return.
random_move(S) ==
    IF NonEmpty(S) = {} THEN {CopyV(S)}
    ELSE UNION {
            LET candidates == (1..Len(S.containers)) \ {f}
            IN IF candidates # {}
               THEN {MoveItemV(S, item_id, f - 1, t - 1) :
                        item_id \in Range(S.containers[f]), t \in candidates}
               ELSE {CopyV(S)}
            : f \in NonEmpty(S)}

\* _random_swap: every State it can return.
random_swap(S) ==
    IF Cardinality(NonEmpty(S)) < 2 THEN {CopyV(S)}
    ELSE UNION {UNION {
            {SwapItemsV(S, item1, idx1 - 1, item2, idx2 - 1) :
                item1 \in Range(S.containers[idx1]),
                item2 \in Range(S.containers[idx2])}
            : idx2 \in NonEmpty(S) \ {idx1}} : idx1 \in NonEmpty(S)}

\* _generate_random_neighbor: a move (random() < 0.8) or a swap.
generate_random_neighbor(S) == random_move(S) \cup random_swap(S)

\* solve() up to its loop.
SABegin ==
    /\ alg = "sa" /\ pc = "constructed"
    /\ current_value' = evaluate_state(CopyV(current_state))
    /\ sa' = [sa EXCEPT !.current_state = CopyV(current_state),
                        !.temperature = sa.initial_temp,
                        !.prev_best_value = best_value,
                        !.stuck_counter = 0]
    /\ pc' = "loop"
    /\ UNCHANGED <<nonSA, alg, caller_state, initial_state, current_state,
                   best_state, best_value, history, iteration_count,
                   max_iterations, returned>>

\* The rest of one iteration once the decision is made: stuck detection,
\* best update, history and metrics, cooling.
SARecord(nb, accepted, cur_state, cur_value, prob, worse) ==
    LET counter == IF ~accepted \/ cur_value >= sa.prev_best_value
                   THEN sa.stuck_counter + 1
                   ELSE 0
        stuck   == counter >= StuckThreshold
        b       == update_best_state(best_state, best_value, cur_state, cur_value)
    IN /\ sa' = [sa EXCEPT
                   !.neighbor_state = nb,
                   !.accepted = accepted,
                   !.current_state = cur_state,
                   !.accepted_worse_count = @ + worse,
                   !.stuck_counter = IF stuck THEN 0 ELSE counter,
                   !.stuck_count = IF stuck THEN @ + 1 ELSE @,
                   !.prev_best_value = best_value,
                   !.acceptance_probs = Append(@, prob),
                   !.temperatures = Append(@, sa.temperature),
                   !.temperature = FracTimes(sa.temperature, sa.cooling_rate)]
       /\ current_value' = cur_value
       /\ best_state' = b.state
       /\ best_value' = b.value
       /\ history' = Append(history, cur_value)
       /\ iteration_count' = iteration_count + 1
       /\ UNCHANGED <<nonSA, alg, pc, caller_state, initial_state, current_state,
                      max_iterations, returned>>

\* delta < 0
SAAcceptBetter ==
    /\ alg = "sa" /\ pc = "loop"
    /\ iteration_count < max_iterations
    /\ \E nb \in generate_random_neighbor(sa.current_state) :
          /\ evaluate_state(nb) - current_value < 0
          /\ SARecord(nb, TRUE, nb, evaluate_state(nb), ProbOne, 0)

\* delta == 0
SAAcceptEqual ==
    /\ alg = "sa" /\ pc = "loop"
    /\ iteration_count < max_iterations
    /\ \E nb \in generate_random_neighbor(sa.current_state) :
          /\ evaluate_state(nb) - current_value = 0
          /\ SARecord(nb, TRUE, nb, evaluate_state(nb), ProbOne, 0)

\* delta > 0 and random.random() < acceptance_prob: a draw of [0, 1) can be
\* below the probability unless it is 0.0.
SAAcceptWorse ==
    /\ alg = "sa" /\ pc = "loop"
    /\ iteration_count < max_iterations
    /\ \E nb \in generate_random_neighbor(sa.current_state) :
          LET delta == evaluate_state(nb) - current_value
          IN /\ delta > 0
             /\ acceptance_prob(delta, sa.temperature) # ProbZero
             /\ SARecord(nb, TRUE, nb, evaluate_state(nb),
                         acceptance_prob(delta, sa.temperature), 1)

\* A rejection that nevertheless moves to the neighbor.
SARejectWorse_replaces ==
    /\ alg = "sa" /\ pc = "loop"
    /\ iteration_count < max_iterations
    /\ \E nb \in generate_random_neighbor(sa.current_state) :
          LET delta == evaluate_state(nb) - current_value
          IN /\ delta > 0
             /\ SARecord(nb, FALSE, nb, evaluate_state(nb),
                         acceptance_prob(delta, sa.temperature), 0)

\* delta > 0 and the draw is not below acceptance_prob.
SARejectWorse ==
    /\ alg = "sa" /\ pc = "loop"
    /\ iteration_count < max_iterations
    /\ \E nb \in generate_random_neighbor(sa.current_state) :
          LET delta == evaluate_state(nb) - current_value
          IN /\ delta > 0
             /\ SARecord(nb, FALSE, sa.current_state, current_value,
                         acceptance_prob(delta, sa.temperature), 0)

\* A run that also ends as soon as the stagnation counter is running.
SAFinish_on_stagnation ==
    /\ alg = "sa" /\ pc = "loop"
    /\ sa.stuck_counter > 0 \/ ~(iteration_count < max_iterations)
    /\ Return(best_state)
    /\ UNCHANGED <<nonSA, sa, alg, caller_state, initial_state, current_state,
                   best_state, best_value, history, iteration_count,
                   max_iterations, current_value>>

\* The loop is over: solve() returns best_state.
SAFinish ==
    /\ alg = "sa" /\ pc = "loop"
    /\ ~(iteration_count < max_iterations)
    /\ Return(best_state)
    /\ UNCHANGED <<nonSA, sa, alg, caller_state, initial_state, current_state,
                   best_state, best_value, history, iteration_count,
                   max_iterations, current_value>>

SANext ==
    \/ SABegin
    \/ SAAcceptBetter
    \/ SAAcceptEqual
    \/ SAAcceptWorse
    \/ SARejectWorse
    \/ SAFinish

\* ------------------------------------------------------- GeneticAlgorithm
\* tournament_selection's default k.
TournamentK == 5

nonGA == <<reuseVars, pairVars, buildVars, stateVars, objVars, tourVars, hc, sa, rr>>

\* The States a caller builds a GeneticAlgorithm on: one arrangement for
\* each way of dividing a catalog of up to MaxItems items into containers
\* (items in catalog order within a container, containers in the order of
\* their first items).
GACallerStates ==
    UNION {{State(Catalog(n), CatalogCapacity, cs) :
               cs \in {a \in Arrangements(n) :
                         /\ \A i \in DOMAIN a : \A j, k \in DOMAIN a[i] :
                               j < k => a[i][j] < a[i][k]
                         /\ \A i, j \in DOMAIN a : i < j => a[i][1] < a[j][1]}}
              : n \in 0..MaxItems}

\* GeneticAlgorithm.__init__: the caller passes the catalog and capacity of
\* its initial State as items and capacity.
GAInit ==
    \E S \in GACallerStates, maxit \in 0..MaxGenerations, ps \in 1..MaxPopulation :
        /\ Constructed("ga", S, maxit)
        /\ hc = <<>> /\ sa = <<>> /\ rr = <<>>
        /\ ga = [items |-> S.items, capacity |-> S.capacity,
                 population |-> <<>>, population_size |-> ps,
                 \* solve()'s locals and late fields, not yet set
                 fitness_list |-> <<>>,
                 global_best_value |-> <<>>, global_best_state |-> NoState,
                 parents |-> <<>>, children |-> <<>>]

\* fitness_function: the objective value of each member of a population.
fitness_function(population) ==
    [i \in 1..Len(population) |-> calculate(population[i])]

\* solve() up to its loop: initialize_population (the driver's initial_state,
\* then best_fit or greedy_fit by random.randint(1, 2)), the first fitness
\* list, and no global best yet (value inf, state None).
GABegin ==
    /\ alg = "ga" /\ pc = "constructed"
    /\ \E choice \in [1..(ga.population_size - 1) -> {1, 2}] :
          LET population ==
                  <<initial_state>> \o
                  [i \in 1..(ga.population_size - 1) |->
                      IF choice[i] = 1
                      THEN best_fit(ga.items, ga.capacity, FALSE)
                      ELSE greedy_fit(ga.items, ga.capacity)]
          IN ga' = [ga EXCEPT !.population = population,
                              !.fitness_list = fitness_function(population),
                              !.global_best_value = <<>>,
                              !.global_best_state = NoState]
    /\ pc' = "select"
    /\ UNCHANGED <<nonGA, alg, caller_state, initial_state, current_state,
                   best_state, best_value, history, iteration_count,
                   max_iterations, current_value, returned>>

\* tournament_selection's ordering of the sampled (fitness, index) pairs:
\* sorted(..., key = fitness, reverse = True).
TournamentOrder(selected_list) == SortedDesc(selected_list)

\* tournament_selection(fitness_list) for the k sampled indices sel: the
\* sampled pairs, and the population indices of the two parents.
tournament_selection(fitness_list, sel) ==
    LET selected_list == [i \in 1..Len(sel) |-> <<fitness_list[sel[i] + 1], sel[i]>>]
        sorted_selected == TournamentOrder(selected_list)
    IN [selected_list |-> selected_list,
        parents |-> <<sorted_selected[1][2], sorted_selected[2][2]>>]

\* parents = self.tournament_selection(fitness_list): k draws of
\* random.randint(0, len(fitness_list) - 1).
GASelect ==
    /\ alg = "ga" /\ pc = "select"
    /\ iteration_count < max_iterations
    /\ \E sel \in [1..TournamentK -> 0..(Len(ga.fitness_list) - 1)] :
          LET t == tournament_selection(ga.fitness_list, sel)
          IN ga' = [ga EXCEPT !.parents = t.parents]
    /\ pc' = "crossover"
    /\ UNCHANGED <<nonGA, alg, caller_state, initial_state, current_state,
                   best_state, best_value, history, iteration_count,
                   max_iterations, current_value, returned>>

\* list(dict.fromkeys(seq)): seq without its repeated elements, order kept.
Dedup(seq) == SelectSeq([i \in 1..Len(seq) |->
                            IF \E j \in 1..(i - 1) : seq[j] = seq[i]
                            THEN <<>> ELSE <<seq[i]>>],
                        LAMBDA x : x # <<>>)

combined_items(parent_1, parent_2) ==
    LET d == Dedup(Flatten(parent_1.containers) \o Flatten(parent_2.containers))
    IN [i \in 1..Len(d) |-> d[i][1]]

\* crossover's greedy repacking of a shuffled item list.
RECURSIVE Repack(_, _, _, _)
Repack(items, capacity, item_list, containers) ==
    IF item_list = <<>> THEN containers
    ELSE LET item == item_list[1]
             fit == {i \in 1..Len(containers) :
                        LoadOf(items, containers[i]) + items[item] <= capacity}
         IN Repack(items, capacity, Tail(item_list),
                IF fit # {}
                THEN [containers EXCEPT ![Min(fit)] = Append(@, item)]
                ELSE Append(containers, <<item>>))

\* A crossover whose first child is repacked without the shuffle.
crossover_first_unshuffled(items, capacity, parent_1, parent_2) ==
    LET combined == combined_items(parent_1, parent_2)
        shuffles == {[i \in 1..Len(combined) |-> combined[p[i]]] :
                        p \in Perms(Len(combined))}
        child(sh) == State(items, capacity, Repack(items, capacity, sh, <<>>))
    IN {<<child(combined), child(s2)>> : s2 \in shuffles}

\* crossover(parents): every pair of children two shuffles can give.
crossover(items, capacity, parent_1, parent_2) ==
    LET combined == combined_items(parent_1, parent_2)
        shuffles == {[i \in 1..Len(combined) |-> combined[p[i]]] :
                        p \in Perms(Len(combined))}
        child(sh) == State(items, capacity, Repack(items, capacity, sh, <<>>))
    IN {<<child(s1), child(s2)>> : s1 \in shuffles, s2 \in shuffles}

\* children = self.crossover(parents)
GACrossover ==
    /\ alg = "ga" /\ pc = "crossover"
    /\ \E ch \in crossover(ga.items, ga.capacity,
                           ga.population[ga.parents[1] + 1],
                           ga.population[ga.parents[2] + 1]) :
          ga' = [ga EXCEPT !.children = ch, !.parents = <<>>]
    /\ pc' = "mutate"
    /\ UNCHANGED <<nonGA, alg, caller_state, initial_state, current_state,
                   best_state, best_value, history, iteration_count,
                   max_iterations, current_value, returned>>

\* mutation's targets for an item of weight item_weight: the containers,
\* other than position skip, that have room for it.
valid_targets(items, capacity, containers, item_weight, skip) ==
    {i \in 1..Len(containers) :
        i # skip /\ LoadOf(items, containers[i]) + item_weight <= capacity}

PruneEmpty(containers) == SelectSeq(containers, LAMBDA c : Len(c) > 0)

\* choice == 1: one item of containers[ri] goes to a container with room,
\* or to a new container when none has.
MutationRelocate(items, capacity, containers, ri) ==
    UNION {
        LET targets == valid_targets(items, capacity, containers, items[it], ri)
            removed == [containers EXCEPT ![ri] = list_remove(@, it)]
        IN IF targets # {}
           THEN {[removed EXCEPT ![t] = Append(@, it)] : t \in targets}
           ELSE {Append(removed, <<it>>)}
        : it \in Range(containers[ri])}

\* choice == 2's loop: each saved item goes to a container with room, or to
\* a new container when none has.
RECURSIVE MutationRedistribute(_, _, _, _)
MutationRedistribute(items, capacity, containers, saved) ==
    IF saved = <<>> THEN {containers}
    ELSE LET targets == valid_targets(items, capacity, containers, items[saved[1]], 0)
         IN IF targets # {}
            THEN UNION {MutationRedistribute(items, capacity,
                            [containers EXCEPT ![t] = Append(@, saved[1])],
                            Tail(saved)) : t \in targets}
            ELSE MutationRedistribute(items, capacity,
                     Append(containers, <<saved[1]>>), Tail(saved))

\* choice == 2: containers[ri] is deleted and its items redistributed.
MutationDissolve(items, capacity, containers, ri) ==
    MutationRedistribute(items, capacity,
        SubSeq(containers, 1, ri - 1) \o SubSeq(containers, ri + 1, Len(containers)),
        containers[ri])

\* mutation(child): every State it can return.  Without the mutation draw,
\* with fewer than two containers, or on an empty container: the copy.
mutation(items, capacity, child) ==
    LET containers == CopyV(child).containers
    IN {CopyV(child)} \cup
       (IF Len(containers) < 2 THEN {}
        ELSE UNION {
               IF Len(containers[ri]) = 0 THEN {CopyV(child)}
               ELSE {State(items, capacity, PruneEmpty(cs)) :
                        cs \in MutationRelocate(items, capacity, containers, ri)
                               \cup MutationDissolve(items, capacity, containers, ri)}
               : ri \in 1..Len(containers)})

\* min(fitness_list) and fitness_list.index(it).
MinOfSeq(seq) == CHOOSE v \in Range(seq) : \A w \in Range(seq) : v <= w

\* A generation that keeps the old population beside the two children.
GAMutate_keeps_population ==
    /\ alg = "ga" /\ pc = "mutate"
    /\ \E m1 \in mutation(ga.items, ga.capacity, ga.children[1]),
          m2 \in mutation(ga.items, ga.capacity, ga.children[2]) :
          LET population == <<m1, m2>> \o ga.population
              fitness_list == fitness_function(population)
              best_fitness == MinOfSeq(fitness_list)
              best_state_now == population[FirstIndex(fitness_list, best_fitness)]
              improves == \/ ga.global_best_value = <<>>
                          \/ best_fitness < ga.global_best_value[1]
          IN /\ ga' = [ga EXCEPT
                         !.population = population,
                         !.fitness_list = fitness_list,
                         !.global_best_value =
                             IF improves THEN <<best_fitness>> ELSE @,
                         !.global_best_state =
                             IF improves THEN CopyV(best_state_now) ELSE @,
                         !.children = <<>>]
             /\ history' = Append(history, best_fitness)
    /\ iteration_count' = iteration_count + 1
    /\ pc' = "select"
    /\ UNCHANGED <<nonGA, alg, caller_state, initial_state, current_state,
                   best_state, best_value, max_iterations, current_value, returned>>

\* The rest of one generation: both children mutated, the population
\* replaced by them, fitness, the global best, history.
GAMutate ==
    /\ alg = "ga" /\ pc = "mutate"
    /\ \E m1 \in mutation(ga.items, ga.capacity, ga.children[1]),
          m2 \in mutation(ga.items, ga.capacity, ga.children[2]) :
          LET population == <<m1, m2>>
              fitness_list == fitness_function(population)
              best_fitness == MinOfSeq(fitness_list)
              best_state_now == population[FirstIndex(fitness_list, best_fitness)]
              improves == \/ ga.global_best_value = <<>>
                          \/ best_fitness < ga.global_best_value[1]
          IN /\ ga' = [ga EXCEPT
                         !.population = population,
                         !.fitness_list = fitness_list,
                         !.global_best_value =
                             IF improves THEN <<best_fitness>> ELSE @,
                         !.global_best_state =
                             IF improves THEN CopyV(best_state_now) ELSE @,
                         !.children = <<>>]
             /\ history' = Append(history, best_fitness)
    /\ iteration_count' = iteration_count + 1
    /\ pc' = "select"
    /\ UNCHANGED <<nonGA, alg, caller_state, initial_state, current_state,
                   best_state, best_value, max_iterations, current_value, returned>>

\* The result with the comparison against the initial State left out.
ga_result_unchecked(global_best_value, global_best_state, init_state) ==
    IF global_best_value = <<>>
    THEN [state |-> init_state, value |-> calculate(init_state)]
    ELSE [state |-> global_best_state, value |-> global_best_value[1]]

\* What solve() leaves in best_state and best_value after the loop: the
\* global best, or the initial State when best_value > initial_value (as
\* it is when no generation ran: inf).
ga_result(global_best_value, global_best_state, init_state) ==
    IF global_best_value = <<>> \/ global_best_value[1] > calculate(init_state)
    THEN [state |-> init_state, value |-> calculate(init_state)]
    ELSE [state |-> global_best_state, value |-> global_best_value[1]]

\* The loop is over: solve() returns (best_state, duration).
GAFinish ==
    /\ alg = "ga" /\ pc = "select"
    /\ ~(iteration_count < max_iterations)
    /\ LET r == ga_result(ga.global_best_value, ga.global_best_state, initial_state)
       IN /\ best_state' = r.state
          /\ best_value' = r.value
          /\ Return(r.state)
    /\ UNCHANGED <<nonGA, ga, alg, caller_state, initial_state, current_state,
                   history, iteration_count, max_iterations, current_value>>

GANext ==
    \/ GABegin
    \/ GASelect
    \/ GACrossover
    \/ GAMutate
    \/ GAFinish

\* ---------------------------------------------- RandomRestartHillClimbing
nonRR == <<reuseVars, pairVars, buildVars, stateVars, objVars, tourVars, hc, sa, ga>>

BaseVariants == {"steepest", "stochastic", "sideways"}

\* The caller is about to construct the driver on State S.
RRInit ==
    \E S \in CallerStates, maxit \in 0..MaxIterations,
       mr \in 1..MaxRestarts, base \in BaseVariants, ms \in 0..MaxSideways :
        /\ alg = "rr" /\ pc = "new"
        /\ caller_state = S
        /\ initial_state = NoState /\ current_state = NoState
        /\ best_state = NoState /\ best_value = 0 /\ history = <<>>
        /\ iteration_count = 0 /\ max_iterations = maxit
        /\ current_value = 0 /\ returned = <<>>
        /\ hc = <<>> /\ sa = <<>> /\ ga = <<>>
        /\ rr = [max_restarts |-> mr, base_algorithm |-> base,
                 base_max_sideways |-> ms,
                 \* not yet set
                 error |-> "none", items |-> <<>>, capacity |-> 0,
                 best_state_overall |-> NoState, best_value_overall |-> 0,
                 runs_history |-> <<>>, restart |-> 0]

\* __init__: super().__init__, then the loop that collects self.items.
\* Its body reads container.items of a container, which is a list: it
\* raises AttributeError for the first container there is.
RRConstruct ==
    /\ alg = "rr" /\ pc = "new"
    /\ initial_state' = CopyV(caller_state)
    /\ current_state' = CopyV(caller_state)
    /\ best_state' = CopyV(caller_state)
    /\ best_value' = calculate(CopyV(caller_state))
    /\ history' = <<calculate(CopyV(caller_state))>>
    /\ IF Len(caller_state.containers) > 0
       THEN /\ rr' = [rr EXCEPT !.error = "AttributeError"]
            /\ pc' = "raised"
       ELSE /\ rr' = [rr EXCEPT
                        !.items = <<>>,
                        !.capacity = caller_state.capacity,
                        !.best_state_overall = CopyV(CopyV(caller_state)),
                        !.best_value_overall =
                            evaluate_state(CopyV(CopyV(caller_state))),
                        !.runs_history = <<>>]
            /\ pc' = "constructed"
    /\ UNCHANGED <<nonRR, alg, caller_state, iteration_count, max_iterations,
                   current_value, returned>>

\* One step of a base run: record_iteration and update_best_state.
BaseStep(r, nb) ==
    LET v == evaluate_state(nb)
        b == update_best_state(r.best_state, r.best_value, nb, v)
    IN [current |-> nb, value |-> v, best_state |-> b.state,
        best_value |-> b.value, history |-> Append(r.history, v)]

\* hc_run.solve() of a base variant with left iterations to go: every
\* outcome it can end with.
RECURSIVE BaseRun(_, _, _, _, _)
BaseRun(variant, r, left, sideways_count, max_sideways) ==
    IF left = 0 THEN {r}
    ELSE LET neighbors == generate_all_neighbors(r.current)
         IN IF Len(neighbors) = 0 THEN {r}
            ELSE IF variant = "steepest"
            THEN LET c == SteepestChoice(neighbors, r.value)
                 IN IF c = 0 THEN {r}
                    ELSE BaseRun(variant, BaseStep(r, neighbors[c]), left - 1,
                                 sideways_count, max_sideways)
            ELSE IF variant = "stochastic"
            THEN LET better == BetterNeighbors(neighbors, r.value)
                 IN IF better = {} THEN {r}
                    ELSE UNION {BaseRun(variant, BaseStep(r, neighbors[c]),
                                        left - 1, sideways_count, max_sideways)
                                   : c \in better}
            ELSE LET nb == neighbors[SidewaysChoice(neighbors)]
                     v  == evaluate_state(nb)
                 IN IF v < r.value
                    THEN BaseRun(variant, BaseStep(r, nb), left - 1, 0, max_sideways)
                    ELSE IF v = r.value /\ ~(sideways_count + 1 >= max_sideways)
                    THEN BaseRun(variant, BaseStep(r, nb), left - 1,
                                 sideways_count + 1, max_sideways)
                    ELSE {r}

\* _create_base_algorithm(state) and its solve(): the outcomes of the run.
base_run(variant, state, maxit, max_sideways) ==
    BaseRun(variant,
            [current |-> CopyV(state), value |-> evaluate_state(CopyV(state)),
             best_state |-> CopyV(state), best_value |-> calculate(CopyV(state)),
             history |-> <<calculate(CopyV(state))>>],
            maxit, 0, max_sideways)

\* _generate_random_initial_state: next_fit over a shuffle of self.items.
generate_random_initial_state(items, capacity) ==
    {State(items, capacity,
           SelectSeq(NextFitLoop(items, capacity, p, <<<<>>>>),
                     LAMBDA c : Len(c) > 0)) : p \in Perms(Len(items))}

\* Steps 2 to 6 of one restart from new_initial_state.
RRRun(new_initial_state) ==
    \E out \in base_run(rr.base_algorithm, new_initial_state, max_iterations,
                        rr.base_max_sideways) :
        LET final_state == out.best_state
            final_value == evaluate_state(final_state)
            better == final_value < rr.best_value_overall
        IN /\ rr' = [rr EXCEPT
                       !.runs_history = Append(@,
                           [initial_objective |-> evaluate_state(new_initial_state),
                            final_objective |-> final_value]),
                       !.best_value_overall = IF better THEN final_value ELSE @,
                       !.best_state_overall =
                           IF better THEN CopyV(final_state) ELSE @,
                       !.restart = @ + 1]
           /\ history' = history \o out.history

\* restart == 0: the run starts from a copy of current_state.
RRFirstRestart ==
    /\ alg = "rr" /\ pc = "constructed"
    /\ rr.restart = 0 /\ rr.restart < rr.max_restarts
    /\ RRRun(CopyV(current_state))
    /\ UNCHANGED <<nonRR, alg, pc, caller_state, initial_state, current_state,
                   best_state, best_value, iteration_count, max_iterations,
                   current_value, returned>>

\* restart > 0: the run starts from a shuffled reconstruction.
RRLaterRestart ==
    /\ alg = "rr" /\ pc = "constructed"
    /\ rr.restart > 0 /\ rr.restart < rr.max_restarts
    /\ \E s0 \in generate_random_initial_state(rr.items, rr.capacity) : RRRun(s0)
    /\ UNCHANGED <<nonRR, alg, pc, caller_state, initial_state, current_state,
                   best_state, best_value, iteration_count, max_iterations,
                   current_value, returned>>

\* restart > 0 where package src is not importable ("from src.core.initializer
\* import ..." while the other modules import core.* and algorithms.*).
RRImportFails ==
    /\ alg = "rr" /\ pc = "constructed"
    /\ rr.restart > 0 /\ rr.restart < rr.max_restarts
    /\ rr' = [rr EXCEPT !.error = "ModuleNotFoundError"]
    /\ pc' = "raised"
    /\ UNCHANGED <<nonRR, alg, caller_state, initial_state, current_state,
                   best_state, best_value, history, iteration_count,
                   max_iterations, current_value, returned>>

\* After the loop: current_state, best_state and best_value are set from
\* the best overall, which is returned.
RRFinish ==
    /\ alg = "rr" /\ pc = "constructed"
    /\ ~(rr.restart < rr.max_restarts)
    /\ current_state' = CopyV(rr.best_state_overall)
    /\ best_state' = CopyV(rr.best_state_overall)
    /\ best_value' = rr.best_value_overall
    /\ Return(rr.best_state_overall)
    /\ UNCHANGED <<nonRR, rr, alg, caller_state, initial_state, history,
                   iteration_count, max_iterations, current_value>>

RRNext ==
    \/ RRConstruct
    \/ RRFirstRestart
    \/ RRLaterRestart
    \/ RRImportFails
    \/ RRFinish

\* ------------------------------------------------ calls of State operations
\* No driver object exists.
DriverIdle ==
    /\ alg = "none" /\ pc = "idle"
    /\ caller_state = NoState /\ initial_state = NoState
    /\ current_state = NoState /\ best_state = NoState
    /\ best_value = 0 /\ history = <<>> /\ iteration_count = 0
    /\ max_iterations = 0 /\ current_value = 0 /\ returned = <<>>
    /\ hc = <<>> /\ sa = <<>> /\ ga = <<>> /\ rr = <<>>

nonState == <<reuseVars, pairVars, buildVars, objVars, tourVars, baseVars, hc, sa, ga, rr>>

\* The receivers: every arrangement of a catalog of up to MaxItems items,
\* and the same with one empty container (State(...) accepts it).
ReceiverStates ==
    UNION {{State(Catalog(n), CatalogCapacity, cs) :
               cs \in Arrangements(n) \cup ArrangementsWithEmpty(n)}
              : n \in 0..MaxItems}

\* The container indices a caller passes: negative ones (Python counts
\* them from the end), the existing ones, and ones past the end.
IndexArgs == (0 - 2)..(MaxItems + 1)

\* The item ids a caller passes (ids past the catalog are in no container).
ItemArgs == 1..MaxItems

StateInit ==
    \E S \in ReceiverStates :
        /\ heap = HeapOf(S)
        /\ recv = ObjOf(S)
        /\ recv_before = S
        /\ call = <<>>
        /\ result = <<>>
        /\ sphase = "fresh"

\* receiver.move_item(item_id, from_idx, to_idx)
CallMoveItem ==
    /\ sphase = "fresh"
    /\ \E item_id \in ItemArgs, from_idx \in IndexArgs, to_idx \in IndexArgs :
          LET r == move_item(heap, recv, item_id, from_idx, to_idx)
          IN /\ call' = [op |-> "move_item",
                         args |-> <<item_id, from_idx, to_idx>>]
             /\ result' = [error |-> r.error, state |-> r.state]
             /\ heap' = r.heap
    /\ sphase' = "called"
    /\ UNCHANGED <<recv, recv_before, nonState>>

\* receiver.swap_items(item1_id, container1_idx, item2_id, container2_idx)
CallSwapItems ==
    /\ sphase = "fresh"
    /\ \E item1_id \in ItemArgs, container1_idx \in IndexArgs,
          item2_id \in ItemArgs, container2_idx \in IndexArgs :
          LET r == swap_items(heap, recv, item1_id, container1_idx,
                              item2_id, container2_idx)
          IN /\ call' = [op |-> "swap_items",
                         args |-> <<item1_id, container1_idx,
                                    item2_id, container2_idx>>]
             /\ result' = [error |-> r.error, state |-> r.state]
             /\ heap' = r.heap
    /\ sphase' = "called"
    /\ UNCHANGED <<recv, recv_before, nonState>>

\* The in-place list operations callers apply to a State they were handed
\* (GeneticAlgorithm.mutation does all four to its copy): on the outer list
\* at address o, append an inner list or delete one; on an inner list,
\* append an item or remove one.
ListChanges(h, o) ==
    {[Append(h, <<>>) EXCEPT ![o] = Append(@, Len(h) + 1)]}
    \cup {[h EXCEPT ![o] = SubSeq(@, 1, i - 1) \o SubSeq(@, i + 1, Len(@))] :
             i \in 1..Len(h[o])}
    \cup {[h EXCEPT ![h[o][i]] = Append(@, it)] :
             i \in 1..Len(h[o]), it \in ItemArgs}
    \cup UNION {{[h EXCEPT ![h[o][i]] = list_remove(@, it)] :
                    it \in Range(h[h[o][i]])} : i \in 1..Len(h[o])}

\* The caller changes the State the call returned, in place.
MutateReturned ==
    /\ sphase = "called"
    /\ result.error = "none"
    /\ \E h \in ListChanges(heap, result.state.containers) : heap' = h
    /\ sphase' = "mutated"
    /\ UNCHANGED <<recv, recv_before, call, result, nonState>>

StateNext ==
    \/ CallMoveItem
    \/ CallSwapItems
    \/ MutateReturned

\* ------------------------------------------- evaluations of the objective
\* Number of unit-size items of the large catalog.
ManyUnit == 102

\* The catalog and capacity of the repository's demo: BRG001..BRG004.
ScenarioItems == <<40, 55, 25, 60>>

ScenarioCapacity == 100

UnitItems == [i \in 1..ManyUnit |-> 1]

nonObj == <<reuseVars, pairVars, buildVars, stateVars, tourVars, baseVars, hc, sa, ga, rr>>

\* The catalogs handed to the heuristic constructors.
ObjCatalogs ==
    {<<Catalog(n), CatalogCapacity>> : n \in 1..MaxItems}
    \cup {<<ScenarioItems, ScenarioCapacity>>}

\* The pairs of States callers build with State(...): two arrangements of a
\* small catalog (the second possibly with an empty container), and the
\* unit catalog with capacity one short of holding all items, one item per
\* container against all items in one container.
ObjInputs ==
    UNION {{<<State(Catalog(n), CatalogCapacity, a),
              State(Catalog(n), CatalogCapacity, b)>> :
               a \in Arrangements(n),
               b \in Arrangements(n) \cup ArrangementsWithEmpty(n)}
              : n \in 1..MaxItems}
    \cup {<<State(UnitItems, ManyUnit - 1, [i \in 1..ManyUnit |-> <<i>>]),
            State(UnitItems, ManyUnit - 1, <<[i \in 1..ManyUnit |-> i]>>)>>}

\* Either a catalog is given, for a heuristic constructor to work on (the
\* States are then empty_state's), or two States are given.
ObjInit ==
    /\ valA = 0
    /\ valB = 0
    /\ \/ \E c \in ObjCatalogs :
             /\ objA = empty_state(c[1], c[2])
             /\ objB = empty_state(c[1], c[2])
             /\ ophase = "input"
       \/ \E in \in ObjInputs :
             /\ objA = in[1]
             /\ objB = in[2]
             /\ ophase = "built"

\* BinPackingInitializer.first_fit on the catalog, unsorted or sorted,
\* next to single_container_per_item on the same catalog.
ApplyFirstFit ==
    /\ ophase = "input"
    /\ \E sort_items \in BOOLEAN :
          objA' = first_fit(objA.items, objA.capacity, sort_items)
    /\ objB' = single_container_per_item(objB.items, objB.capacity)
    /\ ophase' = "built"
    /\ UNCHANGED <<valA, valB, nonObj>>

\* best_fit, next_fit (unsorted or sorted) or greedy_fit on the catalog,
\* next to first_fit on the same catalog.
ApplyOtherFit ==
    /\ ophase = "input"
    /\ \E sort_items \in BOOLEAN :
          objA' \in {best_fit(objA.items, objA.capacity, sort_items),
                     next_fit(objA.items, objA.capacity, sort_items),
                     greedy_fit(objA.items, objA.capacity)}
    /\ objB' = first_fit(objB.items, objB.capacity, FALSE)
    /\ ophase' = "built"
    /\ UNCHANGED <<valA, valB, nonObj>>

\* ObjectiveFunction().calculate on each of the two States.
Evaluate ==
    /\ ophase = "built"
    /\ valA' = calculate(objA)
    /\ valB' = calculate(objB)
    /\ ophase' = "evaluated"
    /\ UNCHANGED <<objA, objB, nonObj>>

ObjNext ==
    \/ ApplyFirstFit
    \/ ApplyOtherFit
    \/ Evaluate

\* ------------------------------------------- calls of tournament_selection
nonTour == <<reuseVars, pairVars, buildVars, stateVars, objVars, baseVars, hc, sa, ga, rr>>

\* The fitness lists tournament_selection is called on: those of the
\* populations of up to MaxPopulation States over one catalog.
TourFitnessLists ==
    UNION {{fitness_function(pop) :
               pop \in UNION {[1..m -> {State(Catalog(n), CatalogCapacity, cs) :
                                          cs \in Arrangements(n)}]
                                 : m \in 1..MaxPopulation}}
              : n \in 1..MaxItems}

TourInit ==
    \E fl \in TourFitnessLists :
        /\ t_fitness_list = fl
        /\ t_sample = <<>>
        /\ t_parents = <<>>
        /\ tphase = "input"

\* The loop of k draws of random.randint(0, len(fitness_list) - 1).
TourSample ==
    /\ tphase = "input"
    /\ t_sample' \in [1..TournamentK -> 0..(Len(t_fitness_list) - 1)]
    /\ tphase' = "sampled"
    /\ UNCHANGED <<t_fitness_list, t_parents, nonTour>>

\* The sort and the two parents taken from its head.
TourSelect ==
    /\ tphase = "sampled"
    /\ t_parents' = tournament_selection(t_fitness_list, t_sample).parents
    /\ tphase' = "selected"
    /\ UNCHANGED <<t_fitness_list, t_sample, nonTour>>

TourNext ==
    \/ TourSample
    \/ TourSelect

\* ------------------------------- two instances and the shared generator
\* The outputs of one draw of the generator that are told apart.
RawValues == 2

\* Draws made by other code between the steps of the two instances.
MaxOtherDraws == 1

nonPair == <<reuseVars, buildVars, stateVars, objVars, tourVars, baseVars, hc, sa, ga, rr>>

Instances == {"a", "b"}

\* random.choice on a list of n elements: the position the generator's
\* output raw selects.
random_choice(n, raw) == (raw % n) + 1

\* StochasticHillClimbing.solve() with left iterations to go, reading the
\* module generator, which has made drawn draws of stream since seeding.
RECURSIVE StochasticSeeded(_, _, _, _)
StochasticSeeded(r, left, stream, drawn) ==
    IF left = 0 THEN [run |-> r, drawn |-> drawn]
    ELSE LET neighbors == generate_all_neighbors(r.current)
             better    == BetterNeighbors(neighbors, r.value)
         IN IF Len(neighbors) = 0 \/ better = {}
            THEN [run |-> r, drawn |-> drawn]
            ELSE LET c == NthSmallest(better,
                              random_choice(Cardinality(better), stream[drawn + 1]))
                 IN StochasticSeeded(BaseStep(r, neighbors[c]), left - 1,
                                     stream, drawn + 1)

\* solve() of a StochasticHillClimbing constructed on state.
stochastic_solve(state, maxit, stream, drawn) ==
    StochasticSeeded(
        [current |-> CopyV(state), value |-> evaluate_state(CopyV(state)),
         best_state |-> CopyV(state), best_value |-> calculate(CopyV(state)),
         history |-> <<calculate(CopyV(state))>>],
        maxit, stream, drawn)

\* The caller is about to build two instances of one variant on the same
\* State, parameters and seed; the generator is as the interpreter left it.
PairInit ==
    \E S \in CallerStates, maxit \in 0..MaxIterations, variant \in BaseVariants,
       ms \in 0..MaxSideways :
        /\ variant # "sideways" => ms = 0
        /\ pair = [variant |-> variant, state |-> S, max_iterations |-> maxit,
                   max_sideways_moves |-> ms, other_draws |-> 0,
                   inst |-> [x \in Instances |->
                                [phase |-> "none", history |-> <<>>]]]
        /\ rng = [seeded |-> FALSE, drawn |-> 0, stream |-> <<>>]

\* __init__ of instance x; StochasticHillClimbing calls random.seed(seed),
\* which puts the module generator back at the start of the seed's stream.
PairConstruct ==
    \E x \in Instances :
        /\ pair.inst[x].phase = "none"
        /\ pair' = [pair EXCEPT !.inst[x].phase = "constructed"]
        /\ rng' = IF pair.variant = "stochastic"
                  THEN [rng EXCEPT !.seeded = TRUE, !.drawn = 0]
                  ELSE rng
        /\ UNCHANGED nonPair

\* solve() of a Steepest or Sideways instance x: no draw is made.
PairSolveExhaustive ==
    \E x \in Instances :
        /\ pair.variant # "stochastic"
        /\ pair.inst[x].phase = "constructed"
        /\ \E out \in base_run(pair.variant, pair.state, pair.max_iterations,
                               pair.max_sideways_moves) :
              pair' = [pair EXCEPT !.inst[x] =
                          [phase |-> "solved", history |-> out.history]]
        /\ UNCHANGED <<rng, nonPair>>

\* solve() of a Stochastic instance x: each random.choice reads the module
\* generator where it stands; what it reads there for the first time is
\* any output, what was read before is read again.
PairSolveStochastic ==
    \E x \in Instances :
        /\ pair.variant = "stochastic"
        /\ pair.inst[x].phase = "constructed"
        /\ \E fresh \in [1..pair.max_iterations -> 0..(RawValues - 1)] :
              \E out \in {stochastic_solve(pair.state, pair.max_iterations,
                                           rng.stream \o fresh, rng.drawn)} :
                  /\ pair' = [pair EXCEPT !.inst[x] =
                                 [phase |-> "solved",
                                  history |-> out.run.history]]
                  /\ rng' = [rng EXCEPT
                               !.drawn = out.drawn,
                               !.stream = SubSeq(rng.stream \o fresh, 1,
                                                 IF out.drawn > Len(rng.stream)
                                                 THEN out.drawn
                                                 ELSE Len(rng.stream))]
        /\ UNCHANGED nonPair

\* Other code draws from module random: from the seed's stream once a
\* Stochastic instance has seeded it.
PairOtherDraw ==
    /\ pair.other_draws < MaxOtherDraws
    /\ \E x \in Instances : pair.inst[x].phase # "solved"
    /\ pair' = [pair EXCEPT !.other_draws = @ + 1]
    /\ \E raw \in 0..(RawValues - 1) :
          rng' = [rng EXCEPT
                    !.drawn = @ + 1,
                    !.stream = IF rng.seeded /\ rng.drawn = Len(rng.stream)
                               THEN Append(@, raw) ELSE @]
    /\ UNCHANGED nonPair

PairNext ==
    \/ PairConstruct
    \/ PairSolveExhaustive
    \/ PairSolveStochastic
    \/ PairOtherDraw

\* ------------------------------------------------ construction of a State
nonBuild == <<reuseVars, pairVars, stateVars, objVars, tourVars, baseVars, hc, sa, ga, rr>>

\* The capacities a caller passes: negative, zero, positive.
BuildCapacities == (0 - 1)..CatalogCapacity

\* The caller holds a catalog (possibly empty) and a capacity.
BuildInit ==
    \E n \in 0..MaxItems, capacity \in BuildCapacities :
        build = [items |-> Catalog(n), capacity |-> capacity, phase |-> "input",
                 constructor |-> "none", error |-> "none", state |-> NoState]

\* A constructor returned S: none of them has a raise statement or
\* validates its arguments.
Built(constructor, S) ==
    /\ build.phase = "input"
    /\ build' = [build EXCEPT !.phase = "built", !.constructor = constructor,
                              !.state = S]
    /\ UNCHANGED nonBuild

\* State(items, capacity, containers)
BuildState ==
    \E cs \in Arrangements(Len(build.items))
              \cup ArrangementsWithEmpty(Len(build.items)) :
        Built("State", State(build.items, build.capacity, cs))

\* State(items, capacity): containers is None.
BuildStateDefault ==
    /\ build.constructor = "none"
    /\ Built("State()", State(build.items, build.capacity, <<<<>>>>))

BuildFirstFit ==
    /\ build.constructor = "none"
    /\ \E sort_items \in BOOLEAN :
          Built("first_fit", first_fit(build.items, build.capacity, sort_items))

BuildBestFit ==
    /\ build.constructor = "none"
    /\ \E sort_items \in BOOLEAN :
          Built("best_fit", best_fit(build.items, build.capacity, sort_items))

BuildNextFit ==
    /\ build.constructor = "none"
    /\ \E sort_items \in BOOLEAN :
          Built("next_fit", next_fit(build.items, build.capacity, sort_items))

BuildRandomFit ==
    \E S \in random_fit(build.items, build.capacity) : Built("random_fit", S)

BuildGreedyFit ==
    /\ build.constructor = "none"
    /\ Built("greedy_fit", greedy_fit(build.items, build.capacity))

BuildSinglePerItem ==
    /\ build.constructor = "none"
    /\ Built("single_container_per_item",
             single_container_per_item(build.items, build.capacity))

BuildNext ==
    \/ BuildState
    \/ BuildStateDefault
    \/ BuildFirstFit
    \/ BuildBestFit
    \/ BuildNextFit
    \/ BuildRandomFit
    \/ BuildGreedyFit
    \/ BuildSinglePerItem

\* ------------------------------- drivers run on a caller's State object
nonReuse == <<pairVars, buildVars, stateVars, objVars, tourVars, baseVars,
              hc, sa, ga, rr>>

\* Runs made one after the other on the same State object, and the
\* iterations of each run followed here.
MaxRuns == 2

MaxReuseIterations == 1

ReuseDrivers == {"steepest", "stochastic", "sideways", "sa", "ga"}

NoObj == StateObj(<<>>, 0, 0)

\* State(items, capacity, containers) on lists just built.
AllocState(h, S) ==
    LET n == Len(S.containers)
    IN [heap  |-> h \o S.containers \o <<[i \in 1..n |-> Len(h) + i]>>,
        state |-> StateObj(S.items, S.capacity, Len(h) + n + 1)]

\* The caller's State object: its lists are the first ones of the heap.
CallerObj == ObjOf(reuse.caller)

ReuseInit ==
    \E S \in CallerStates :
        reuse = [caller |-> S, heap |-> HeapOf(S), alg |-> "none",
                 phase |-> "input", runs |-> 0, iterations |-> 0,
                 initial_state |-> NoObj, current_state |-> NoObj,
                 best_state |-> NoObj, population |-> <<>>]

\* BaseLocalSearchAlgorithm.__init__(initial_state, ...): three copies of
\* the caller's object.
ReuseConstruct ==
    /\ reuse.phase = "input"
    /\ reuse.runs < MaxRuns
    /\ \E a \in ReuseDrivers :
          \E c1 \in {copy(reuse.heap, CallerObj)} :
          \E c2 \in {copy(c1.heap, CallerObj)} :
          \E c3 \in {copy(c2.heap, CallerObj)} :
              reuse' = [reuse EXCEPT !.alg = a, !.phase = "constructed",
                                     !.iterations = 0, !.heap = c3.heap,
                                     !.initial_state = c1.state,
                                     !.current_state = c2.state,
                                     !.best_state = c3.state,
                                     !.population = <<>>]
    /\ UNCHANGED nonReuse

\* The calls generate_all_neighbors makes on a State, in order:
\* <<"move", item, from, to, 0>> and <<"swap", item1, i, item2, j>>.
NeighborCalls(S) ==
    LET c == S.containers
        n == Len(c)
    IN Flatten([f \in 1..n |->
           Flatten([k \in 1..Len(c[f]) |->
               [t \in 1..(n - 1) |->
                   <<"move", c[f][k], f - 1, IF t < f THEN t - 1 ELSE t, 0>>]
               \o <<<<"move", c[f][k], f - 1, -1, 0>>>>])])
       \o
       Flatten([i \in 1..n |->
           Flatten([k \in 1..Len(c[i]) |->
               Flatten([j \in 1..n |->
                   IF j > i
                   THEN [m \in 1..Len(c[j]) |->
                           <<"swap", c[i][k], i - 1, c[j][m], j - 1>>]
                   ELSE <<>>])])])

ApplyCall(h, obj, c) ==
    IF c[1] = "move" THEN move_item(h, obj, c[2], c[3], c[4])
    ELSE swap_items(h, obj, c[2], c[3], c[4], c[5])

\* The calls made one after the other on the same heap: the heap they
\* leave and the State objects they returned.
RECURSIVE RunCalls(_, _, _, _)
RunCalls(h, obj, calls, acc) ==
    IF calls = <<>> THEN [heap |-> h, states |-> acc, error |-> "none"]
    ELSE CHOOSE out \in
            {IF r.error # "none"
             THEN [heap |-> r.heap, states |-> acc, error |-> r.error]
             ELSE RunCalls(r.heap, obj, Tail(calls), Append(acc, r.state))
             : r \in {ApplyCall(h, obj, calls[1])}} : TRUE

\* update_best_state(new_state, value): best_state = new_state.copy(), or
\* nothing, by the values.
BestUpdates(h, best, new_state) ==
    {[heap |-> h, best |-> best]} \cup
    {[heap |-> c.heap, best |-> c.state] : c \in {copy(h, new_state)}}

\* One iteration of a hill-climbing solve(): every neighbor is generated,
\* one of them becomes current_state, best_state may be updated.
ReuseClimb ==
    /\ reuse.phase = "constructed"
    /\ reuse.alg \in {"steepest", "stochastic", "sideways"}
    /\ reuse.iterations < MaxReuseIterations
    /\ \E out \in {RunCalls(reuse.heap, reuse.current_state,
                            NeighborCalls(deref(reuse.heap, reuse.current_state)),
                            <<>>)} :
          /\ out.error = "none"
          /\ \E k \in DOMAIN out.states :
                \E b \in BestUpdates(out.heap, reuse.best_state, out.states[k]) :
                    reuse' = [reuse EXCEPT !.heap = b.heap,
                                           !.current_state = out.states[k],
                                           !.best_state = b.best,
                                           !.iterations = @ + 1]
    /\ UNCHANGED nonReuse

\* The calls _generate_random_neighbor can make on a State: a move to
\* another existing container, a swap across two containers; "copy" stands
\* for state.copy().
RandomCalls(S) ==
    LET calls == NeighborCalls(S)
    IN {calls[i] : i \in {j \in DOMAIN calls : calls[j][1] = "swap" \/ calls[j][4] # -1}}

\* One iteration of SimulatedAnnealing.solve(): the local current_state is a
\* copy of self.current_state; a random neighbor is accepted or not.
ReuseAnneal ==
    /\ reuse.phase = "constructed"
    /\ reuse.alg = "sa"
    /\ reuse.iterations < MaxReuseIterations
    /\ \E cur \in {copy(reuse.heap, reuse.current_state)} :
       \E nb \in {ApplyCall(cur.heap, cur.state, c) :
                     c \in RandomCalls(deref(cur.heap, cur.state))}
                 \cup {copy(cur.heap, cur.state)} :
       \E accepted \in BOOLEAN :
       \E b \in BestUpdates(nb.heap, reuse.best_state,
                            IF accepted THEN nb.state ELSE cur.state) :
           reuse' = [reuse EXCEPT !.heap = b.heap,
                                  !.current_state =
                                      IF accepted THEN nb.state ELSE cur.state,
                                  !.best_state = b.best,
                                  !.iterations = @ + 1]
    /\ UNCHANGED nonReuse

\* What mutation's statements do to the lists of new_state = child.copy():
\* the lists at addrs get the contents cs, further containers are new lists
\* appended to the outer list; the comprehension and State(...) then build a
\* new outer list.
WriteBack(h, st, addrs, cs) ==
    LET k     == Len(addrs)
        extra == Len(cs) - k
        h1    == [a \in 1..Len(h) |->
                     IF \E i \in 1..k : addrs[i] = a
                     THEN cs[CHOOSE i \in 1..k : addrs[i] = a]
                     ELSE IF a = st.containers
                     THEN addrs \o [j \in 1..extra |-> Len(h) + j]
                     ELSE h[a]]
                 \o [j \in 1..extra |-> cs[k + j]]
        r     == Pruned(h1, st)
    IN [heap |-> r.heap, state |-> r.state]

\* mutation(child) on the heap: every heap and State object it can leave.
mutation_on_heap(h, child, items, capacity) ==
    LET c     == copy(h, child)
        outer == c.heap[c.state.containers]
        cs0   == deref(c.heap, c.state).containers
    IN {[heap |-> c.heap, state |-> c.state]} \cup
       (IF Len(cs0) < 2 THEN {}
        ELSE UNION {
               IF Len(cs0[ri]) = 0 THEN {}
               ELSE {WriteBack(c.heap, c.state, outer, cs) :
                        cs \in MutationRelocate(items, capacity, cs0, ri)}
                    \cup
                    {WriteBack(c.heap, c.state,
                               SubSeq(outer, 1, ri - 1)
                                   \o SubSeq(outer, ri + 1, Len(outer)), cs) :
                        cs \in MutationDissolve(items, capacity, cs0, ri)}
               : ri \in 1..Len(cs0)})

\* One generation of GeneticAlgorithm.solve(), the first one preceded by
\* initialize_population: self.initial_state and one constructed State;
\* two parents, two children on new lists, each mutated; the population is
\* replaced and the better child copied as the global best.
ReuseGeneration ==
    /\ reuse.phase = "constructed"
    /\ reuse.alg = "ga"
    /\ reuse.iterations < MaxReuseIterations
    /\ \E other \in {best_fit(reuse.caller.items, reuse.caller.capacity, FALSE),
                     greedy_fit(reuse.caller.items, reuse.caller.capacity)} :
       \E p \in {AllocState(reuse.heap, other)} :
       \E parent_1, parent_2 \in {reuse.initial_state, p.state} :
       \E ch \in crossover(reuse.caller.items, reuse.caller.capacity,
                           deref(p.heap, parent_1), deref(p.heap, parent_2)) :
       \E a1 \in {AllocState(p.heap, ch[1])} :
       \E m1 \in mutation_on_heap(a1.heap, a1.state,
                                  reuse.caller.items, reuse.caller.capacity) :
       \E a2 \in {AllocState(m1.heap, ch[2])} :
       \E m2 \in mutation_on_heap(a2.heap, a2.state,
                                  reuse.caller.items, reuse.caller.capacity) :
       \E best_state_now \in {m1.state, m2.state} :
       \E g \in {copy(m2.heap, best_state_now)} :
           reuse' = [reuse EXCEPT !.heap = g.heap,
                                  !.population = <<m1.state, m2.state>>,
                                  !.best_state = g.state,
                                  !.iterations = @ + 1]
    /\ UNCHANGED nonReuse

\* solve() returns; the caller drops the driver and what it returned, and
\* keeps its State object for the next run.
ReuseFinish ==
    /\ reuse.phase = "constructed"
    /\ reuse' = [reuse EXCEPT !.phase = "input", !.alg = "none",
                              !.runs = @ + 1, !.iterations = 0,
                              !.heap = SubSeq(@, 1, Len(HeapOf(reuse.caller))),
                              !.initial_state = NoObj,
                              !.current_state = NoObj,
                              !.best_state = NoObj,
                              !.population = <<>>]
    /\ UNCHANGED nonReuse

ReuseNext ==
    \/ ReuseConstruct
    \/ ReuseClimb
    \/ ReuseAnneal
    \/ ReuseGeneration
    \/ ReuseFinish

\* ---------------------------------------------------------- specifications
\* One run of a local-search driver: a hill-climbing variant or
\* simulated annealing.
InitLocal ==
    /\ ReuseIdle
    /\ PairIdle
    /\ BuildIdle
    /\ StateIdle
    /\ ObjIdle
    /\ TourIdle
    /\ (SteepestInit \/ StochasticInit \/ SidewaysInit \/ SAInit)

NextLocal == SteepestNext \/ StochasticNext \/ SidewaysNext \/ SANext

SpecLocal == InitLocal /\ [][NextLocal]_vars

\* One run of any of the five drivers that construct.
Init ==
    /\ ReuseIdle
    /\ PairIdle
    /\ BuildIdle
    /\ StateIdle
    /\ ObjIdle
    /\ TourIdle
    /\ (SteepestInit \/ StochasticInit \/ SidewaysInit \/ SAInit \/ GAInit)

Next == SteepestNext \/ StochasticNext \/ SidewaysNext \/ SANext \/ GANext

Spec == Init /\ [][Next]_vars


InitGA ==
    /\ ReuseIdle
    /\ PairIdle
    /\ BuildIdle
    /\ StateIdle
    /\ ObjIdle
    /\ TourIdle
    /\ GAInit

SpecGA == InitGA /\ [][GANext]_vars

InitRR ==
    /\ ReuseIdle
    /\ PairIdle
    /\ BuildIdle
    /\ StateIdle
    /\ ObjIdle
    /\ TourIdle
    /\ RRInit

SpecRR == InitRR /\ [][RRNext]_vars

InitPair ==
    /\ ReuseIdle
    /\ BuildIdle
    /\ StateIdle
    /\ ObjIdle
    /\ TourIdle
    /\ DriverIdle
    /\ PairInit

SpecPair == InitPair /\ [][PairNext]_vars

InitBuild ==
    /\ ReuseIdle
    /\ PairIdle
    /\ StateIdle
    /\ ObjIdle
    /\ TourIdle
    /\ DriverIdle
    /\ BuildInit

SpecBuild == InitBuild /\ [][BuildNext]_vars

InitReuse ==
    /\ PairIdle
    /\ BuildIdle
    /\ StateIdle
    /\ ObjIdle
    /\ TourIdle
    /\ DriverIdle
    /\ ReuseInit

SpecReuse == InitReuse /\ [][ReuseNext]_vars

InitTour ==
    /\ ReuseIdle
    /\ PairIdle
    /\ BuildIdle
    /\ StateIdle
    /\ ObjIdle
    /\ TourInit
    /\ DriverIdle

SpecTour == InitTour /\ [][TourNext]_vars

InitState ==
    /\ ReuseIdle
    /\ PairIdle
    /\ BuildIdle
    /\ StateInit
    /\ ObjIdle
    /\ TourIdle
    /\ DriverIdle

SpecState == InitState /\ [][StateNext]_vars

InitObj ==
    /\ ReuseIdle
    /\ PairIdle
    /\ BuildIdle
    /\ StateIdle
    /\ ObjInit
    /\ TourIdle
    /\ DriverIdle

SpecObj == InitObj /\ [][ObjNext]_vars



\* ------------------------------------------------------------- properties
ExistingIndex(S, i) == i \in 0..(Len(S.containers) - 1)

\* The move_item call made is one the contract covers: the item is in
\* containers[from], and to is another existing index, -1, or past the end.
MoveCallInContract ==
    /\ call.op = "move_item"
    /\ ExistingIndex(recv_before, call.args[2])
    /\ call.args[1] \in Range(recv_before.containers[call.args[2] + 1])
    /\ \/ call.args[3] = -1
       \/ call.args[3] >= Len(recv_before.containers)
       \/ ExistingIndex(recv_before, call.args[3]) /\ call.args[3] # call.args[2]

\* The swap_items call made is one the contract covers: item1 is in
\* containers[c1], item2 in containers[c2], and c1 # c2.
SwapCallInContract ==
    /\ call.op = "swap_items"
    /\ ExistingIndex(recv_before, call.args[2])
    /\ ExistingIndex(recv_before, call.args[4])
    /\ call.args[2] # call.args[4]
    /\ call.args[1] \in Range(recv_before.containers[call.args[2] + 1])
    /\ call.args[3] \in Range(recv_before.containers[call.args[4] + 1])

\* C1: on a receiver that is a partition of its catalog, a move_item or
\* swap_items call within the contract returns a State in which every
\* catalog item is in exactly one container and no container is empty,
\* whether or not a container of the result is over capacity.
C1_TransformKeepsPartition ==
    (/\ sphase = "called"
     /\ IsPartition(recv_before)
     /\ (MoveCallInContract \/ SwapCallInContract))
    => /\ result.error = "none"
       /\ IsPartition(deref(heap, result.state))
       /\ NoEmptyContainer(deref(heap, result.state))

\* A call within the contract on a valid receiver whose result has a
\* container over capacity.
C1_Witness ==
    /\ sphase = "called"
    /\ IsPartition(recv_before)
    /\ (MoveCallInContract \/ SwapCallInContract)
    /\ is_valid(recv_before)
    /\ result.error = "none"
    /\ ~is_valid(deref(heap, result.state))

\* C3: after a move_item or swap_items call, returned or raised, the
\* receiver denotes the State it denoted before the call, and it still
\* does after the caller changes the returned State in place.
C3_ReceiverUnchanged ==
    sphase \in {"called", "mutated"} => deref(heap, recv) = recv_before

\* The returned State has been changed in place (it is no partition any
\* more, as every returned State was).
C3_Witness ==
    /\ sphase = "mutated"
    /\ IsPartition(recv_before)
    /\ ~IsPartition(deref(heap, result.state))


\* The load of the container at position i of S.
LoadAt(S, i) ==
    SumSeq([k \in 1..Len(S.containers[i]) |-> S.items[S.containers[i][k]]])

Positive(x) == IF x > 0 THEN x ELSE 0

NonEmptyAt(S) == {i \in 1..Len(S.containers) : Len(S.containers[i]) > 0}

\* Sum over the non-empty containers of load^2: the sum of
\* (load / capacity)^2, times capacity^2.
DensitySum(S) ==
    SumSeq([i \in 1..Len(S.containers) |->
               IF i \in NonEmptyAt(S) THEN LoadAt(S, i) * LoadAt(S, i) ELSE 0])

\* W_o * sum of max(0, load - capacity)^2 + W_c * (non-empty containers)
\* + W_d * (-(sum over non-empty containers of (load / capacity)^2)),
\* times capacity^2.
StatedObjective(S) ==
    10000 * S.capacity * S.capacity
          * SumSeq([i \in 1..Len(S.containers) |->
                       Positive(LoadAt(S, i) - S.capacity)
                       * Positive(LoadAt(S, i) - S.capacity)])
    + 100 * S.capacity * S.capacity * Cardinality(NonEmptyAt(S))
    + (0 - 10) * (0 - DensitySum(S))

\* C8 as stated: of two States over one catalog and capacity with the same
\* number of non-empty containers and no overloaded container, the one with
\* the larger sum of (load / capacity)^2 has the strictly smaller value.
C8_TighterPackingLowers ==
    (/\ ophase = "evaluated"
     /\ objA.items = objB.items /\ objA.capacity = objB.capacity
     /\ is_valid(objA) /\ is_valid(objB)
     /\ Cardinality(NonEmptyAt(objA)) = Cardinality(NonEmptyAt(objB))
     /\ DensitySum(objA) > DensitySum(objB))
    => valA < valB

\* C9 as stated: of two States over one catalog and capacity, one with no
\* overloaded container and one with at least one, the first has the
\* strictly smaller value.
C9_ValidBeatsInvalid ==
    (/\ ophase = "evaluated"
     /\ objA.items = objB.items /\ objA.capacity = objB.capacity
     /\ is_valid(objA) /\ ~is_valid(objB))
    => valA < valB

\* C10: calculate returns the stated weighted sum and leaves the State as
\* it was; on first_fit (unsorted) of the demo catalog, which is
\* [A, B], [C, D], it returns 216.25 (865 / 4).
C10_CalculateAsStated ==
    [][(ophase = "built" /\ ophase' = "evaluated")
       => /\ valA' = StatedObjective(objA)
          /\ valB' = StatedObjective(objB)
          /\ objA' = objA
          /\ objB' = objB
          /\ (objA = first_fit(ScenarioItems, ScenarioCapacity, FALSE)
              => /\ objA.containers = <<<<1, 2>>, <<3, 4>>>>
                 /\ 4 * valA' = 865 * ScenarioCapacity * ScenarioCapacity)]_vars

\* calculate has been applied to first_fit (unsorted) of the demo catalog.
C10_Witness ==
    /\ ophase = "evaluated"
    /\ objA = first_fit(ScenarioItems, ScenarioCapacity, FALSE)
    /\ objA.containers = <<<<1, 2>>, <<3, 4>>>>
    /\ 4 * valA = 865 * ScenarioCapacity * ScenarioCapacity


\* Every State the driver holds or can produce in its current step: the
\* base fields, what solve() returned, the candidates of the next
\* hill-climbing or annealing step, and the GA's population, children and
\* global best.
HeldStates ==
    ({initial_state, current_state, best_state}
     \cup (IF returned = <<>> THEN {} ELSE {returned[1]})
     \cup (IF alg \in {"steepest", "stochastic", "sideways"} /\ pc = "loop"
           THEN Range(generate_all_neighbors(current_state)) ELSE {})
     \cup (IF alg = "sa"
           THEN {sa.current_state, sa.neighbor_state}
                \cup (IF pc = "loop"
                      THEN generate_random_neighbor(sa.current_state) ELSE {})
           ELSE {})
     \cup (IF alg = "ga"
           THEN Range(ga.population) \cup Range(ga.children)
                \cup {ga.global_best_state}
           ELSE {}))
    \ {NoState}

\* C2: in a run of SteepestAscent, Stochastic, SidewaysMove,
\* SimulatedAnnealing or GeneticAlgorithm started on a State that is a
\* partition of the catalog, every State the driver holds or produces
\* keeps every item in exactly one container.
C2_DriversKeepPartition ==
    IsPartition(caller_state) => \A S \in HeldStates : IsPartition(S)

\* A GA population after crossover and mutation over the full catalog, with
\* a member that is not the caller's arrangement.
C2_Witness ==
    /\ alg = "ga" /\ pc = "select"
    /\ iteration_count = MaxGenerations
    /\ Len(ga.items) = MaxItems
    /\ IsPartition(caller_state)
    /\ \E i \in DOMAIN ga.population :
          ga.population[i].containers # caller_state.containers

\* C4: in a run of a hill-climbing variant or of simulated annealing,
\* best_value is the objective value of best_state, no step increases it,
\* and when the run is over it is at most the initial State's value.
C4_BestValueNeverWorse ==
    /\ [](/\ best_value = calculate(best_state)
          /\ (pc = "done" => best_value <= calculate(initial_state)))
    /\ [][best_value' <= best_value]_vars

\* An annealing run that accepted a worse State on its way and ended with
\* a best_value below the initial value.
C4_Witness ==
    /\ alg = "sa" /\ pc = "done"
    /\ sa.accepted_worse_count > 0
    /\ best_value < calculate(initial_state)
    /\ best_value = calculate(best_state)

\* C5: GeneticAlgorithm.solve returns the best State over all generations
\* (history[2..] holds each generation's best fitness), unless that is
\* worse than the initial State or no generation ran: then it returns the
\* initial State.  So the returned State's value is at most the initial's.
C5_ReturnsBestOrInitial ==
    (alg = "ga" /\ pc = "done") =>
        LET iv == calculate(initial_state)
            r  == returned[1]
            gens == 2..Len(history)
        IN /\ calculate(r) <= iv
           /\ IF \A g \in gens : history[g] > iv
              THEN r = initial_state
              ELSE /\ r = ga.global_best_state
                   /\ \A g \in gens : calculate(r) <= history[g]
                   /\ \E g \in gens : calculate(r) = history[g]

\* After all generations the global best is worse than the initial State,
\* and the initial State is returned.
C5_Witness ==
    /\ alg = "ga" /\ pc = "done"
    /\ iteration_count = MaxGenerations
    /\ ga.global_best_value # <<>>
    /\ ga.global_best_value[1] > calculate(initial_state)
    /\ returned[1] = initial_state

\* C6 as stated: a RandomRestartHillClimbing built on a caller's State with
\* max_restarts >= 1 runs (nothing raises), does max_restarts base runs, and
\* returns a State whose value is at most every run's final value and at
\* most the value of the caller's State.
C6_RestartsReturnBest ==
    alg = "rr" =>
        /\ rr.error = "none"
        /\ pc = "done" =>
              /\ Len(rr.runs_history) = rr.max_restarts
              /\ \A k \in DOMAIN rr.runs_history :
                    calculate(returned[1]) <= rr.runs_history[k].final_objective
              /\ calculate(returned[1]) <= calculate(caller_state)

\* C7 as stated: no sampled individual outside the returned pair has a
\* strictly lower fitness than a returned parent.
C7_ParentsAreLowest ==
    tphase = "selected" =>
        \A i \in DOMAIN t_sample :
            t_sample[i] \notin Range(t_parents) =>
                \A q \in DOMAIN t_parents :
                    ~(t_fitness_list[t_sample[i] + 1]
                         < t_fitness_list[t_parents[q] + 1])


\* No neighbor of S has a strictly lower objective value than S.
NoLowerNeighbor(S) ==
    LET neighbors == generate_all_neighbors(S)
    IN \A i \in DOMAIN neighbors :
          ~(evaluate_state(neighbors[i]) < evaluate_state(S))

\* C11 as stated: SteepestAscentHillClimbing started from a State none of
\* whose neighbors has a strictly lower objective stops at iteration 0 with
\* reason "local_optimum" and returns a State with the initial containers.
C11_LocalOptimumStopsAtZero ==
    (alg = "steepest" /\ pc = "done" /\ NoLowerNeighbor(caller_state))
    => /\ iteration_count = 0
       /\ hc.stuck_iteration = <<0>>
       /\ steepest_stuck_reason(hc) = "local_optimum"
       /\ returned[1].containers = caller_state.containers

\* C12 as stated: in a SidewaysMoveHillClimbing run, for every
\* max_sideways_moves >= 0, sideways_count (reported as
\* total_sideways_moves) never exceeds max_sideways_moves.
C12_SidewaysCountWithinLimit ==
    alg = "sideways" => hc.sideways_count <= hc.max_sideways_moves

\* C13 as stated: two instances of SteepestAscent, SidewaysMove or seeded
\* Stochastic hill climbing given the same State, parameters and seed have
\* the same history, in whatever order they are constructed and solved and
\* whatever other draws are made in between.
C13_SameInputsSameHistory ==
    (\A x \in Instances : pair.inst[x].phase = "solved")
    => pair.inst["a"].history = pair.inst["b"].history

\* C14 as stated: whenever solve() of SteepestAscent, Stochastic or
\* SidewaysMove hill climbing returns, a stop reason is recorded, and a run
\* that used up max_iterations is not recorded as a local optimum.
C14_StopReasonRecorded ==
    (alg \in BaseVariants /\ pc = "done")
    => /\ shown_stuck_reason(alg, hc) # "None"
       /\ iteration_count = max_iterations
             => shown_stuck_reason(alg, hc) # "local_optimum"

\* C15 as stated: swap_items called with container1_idx equal to
\* container2_idx raises an error and returns no State.
C15_SwapSameContainerRaises ==
    (/\ sphase = "called"
     /\ call.op = "swap_items"
     /\ call.args[2] = call.args[4])
    => /\ result.error # "none"
       /\ result.state = NoState

\* The item is not in containers[idx] of S (which includes that idx names
\* no container).
NotInContainer(S, item, idx) ==
    LET p == PyIndex(Len(S.containers), idx)
    IN p = 0 \/ item \notin Range(S.containers[p])

\* The call made names an item that is not in its stated container.
CallOutsideMembership ==
    \/ /\ call.op = "move_item"
       /\ NotInContainer(recv_before, call.args[1], call.args[2])
    \/ /\ call.op = "swap_items"
       /\ \/ NotInContainer(recv_before, call.args[1], call.args[2])
          \/ NotInContainer(recv_before, call.args[3], call.args[4])

\* C16: move_item with an item that is not in containers[from_idx], and
\* swap_items with item1 not in containers[container1_idx] or item2 not in
\* containers[container2_idx], raise an error, return no State, and leave
\* the receiver's containers as they were.
C16_MissingItemRaises ==
    (sphase = "called" /\ CallOutsideMembership)
    => /\ result.error # "none"
       /\ result.state = NoState
       /\ deref(heap, recv) = recv_before

\* A swap_items call whose first item is where the call says and whose
\* second is not: it raised after the first removal, on a receiver that is
\* a partition.
C16_Witness ==
    /\ sphase = "called"
    /\ call.op = "swap_items"
    /\ IsPartition(recv_before)
    /\ ~NotInContainer(recv_before, call.args[1], call.args[2])
    /\ PyIndex(Len(recv_before.containers), call.args[4]) # 0
    /\ NotInContainer(recv_before, call.args[3], call.args[4])
    /\ result.error = "ValueError"
    /\ deref(heap, recv) = recv_before

\* C17 as stated: building a State with a non-positive capacity or with an
\* empty catalog, through State(...) or through a heuristic constructor,
\* raises an error and returns no State.
C17_BadArgumentsRaise ==
    (/\ build.phase = "built"
     /\ (build.capacity <= 0 \/ Len(build.items) = 0))
    => /\ build.error # "none"
       /\ build.state = NoState

\* The value a logged probability stands for lies in [0, 1]: 1.0, 0.0, or
\* exp(-delta / temperature) with a defined, non-positive exponent.
InUnitInterval(p) ==
    \/ p.kind \in {"one", "zero"}
    \/ /\ p.kind = "exp"
       /\ p.temp.num # 0
       /\ \/ p.delta >= 0 /\ p.temp.num > 0
          \/ p.delta <= 0 /\ p.temp.num < 0

\* C18: in a SimulatedAnnealing run every logged acceptance probability lies
\* in [0, 1], whatever initial_temp and cooling_rate are, and one probability
\* and one temperature are logged per iteration.
C18_ProbabilitiesInUnitInterval ==
    alg = "sa" =>
        /\ \A i \in 1..Len(sa.acceptance_probs) :
              InUnitInterval(sa.acceptance_probs[i])
        /\ Len(sa.acceptance_probs) = iteration_count
        /\ Len(sa.temperatures) = iteration_count

\* A finished run that logged an exponential at a positive temperature and
\* 0.0 for a worse neighbor at a temperature <= 0.
C18_Witness ==
    /\ alg = "sa" /\ pc = "done"
    /\ iteration_count >= 2
    /\ \E i, j \in 1..Len(sa.acceptance_probs) :
          /\ sa.acceptance_probs[i].kind = "exp"
          /\ sa.acceptance_probs[j].kind = "zero"
          /\ ~FracPositive(sa.temperatures[j])

\* One iteration of SimulatedAnnealing.solve, seen from outside: the
\* neighbor drawn is sa'.neighbor_state and delta its value minus the
\* current one.
SAIterationRule ==
    (alg = "sa" /\ pc = "loop" /\ iteration_count' = iteration_count + 1) =>
        LET nb    == sa'.neighbor_state
            delta == evaluate_state(nb) - current_value
            moved == /\ sa'.current_state = nb
                     /\ current_value' = evaluate_state(nb)
            kept  == /\ sa'.current_state = sa.current_state
                     /\ current_value' = current_value
        IN /\ nb \in generate_random_neighbor(sa.current_state)
           /\ delta <= 0 =>
                 /\ moved
                 /\ sa'.accepted
                 /\ sa'.accepted_worse_count = sa.accepted_worse_count
           /\ delta > 0 =>
                 \/ /\ sa'.accepted
                    /\ moved
                    /\ FracPositive(sa.temperature)
                    /\ sa'.acceptance_probs[iteration_count'] =
                          ProbExp(delta, sa.temperature)
                    /\ sa'.accepted_worse_count = sa.accepted_worse_count + 1
                 \/ /\ ~sa'.accepted
                    /\ kept
                    /\ sa'.accepted_worse_count = sa.accepted_worse_count

\* C19: in each SimulatedAnnealing iteration a neighbor with delta <= 0
\* replaces the current state; one with delta > 0 replaces it only through
\* the draw against exp(-delta / temperature) and never at a temperature
\* <= 0; accepted_worse_count, 0 before the loop, grows by one exactly on an
\* accepted delta > 0; a rejection leaves the current state and value alone.
C19_AcceptanceRule ==
    /\ [](alg = "sa" /\ pc = "constructed" => sa.accepted_worse_count = 0)
    /\ [][SAIterationRule]_vars

\* A run that accepted a worse neighbor and later rejected one at a
\* temperature <= 0.
C19_Witness ==
    /\ alg = "sa" /\ pc = "loop"
    /\ iteration_count >= 2
    /\ sa.accepted_worse_count >= 1
    /\ ~sa.accepted
    /\ sa.acceptance_probs[iteration_count] = ProbZero
    /\ ~FracPositive(sa.temperatures[iteration_count])
    /\ sa.neighbor_state # sa.current_state

\* The neighbors of a State whose objective value is the least among them.
MinimumNeighbors(S) ==
    LET neighbors == generate_all_neighbors(S)
    IN {neighbors[i] : i \in {i \in DOMAIN neighbors :
            \A j \in DOMAIN neighbors :
                evaluate_state(neighbors[i]) <= evaluate_state(neighbors[j])}}

\* One iteration of SidewaysMoveHillClimbing.solve with at least one
\* neighbor, seen from outside.
SidewaysIterationRule ==
    (/\ alg = "sideways" /\ pc = "loop"
     /\ iteration_count < max_iterations
     /\ Len(generate_all_neighbors(current_state)) # 0) =>
        \E m \in {evaluate_state(nb) : nb \in MinimumNeighbors(current_state)} :
            /\ m < current_value =>
                  /\ current_state' \in MinimumNeighbors(current_state)
                  /\ current_value' = m
                  /\ hc'.sideways_count = 0
                  /\ pc' = "loop"
            /\ m = current_value =>
                  /\ hc'.sideways_count = hc.sideways_count + 1
                  /\ IF hc'.sideways_count >= hc.max_sideways_moves
                     THEN /\ pc' = "done"
                          /\ hc'.stuck_reason = "max_sideways_reached"
                          /\ current_state' = current_state
                     ELSE /\ current_state' \in MinimumNeighbors(current_state)
                          /\ current_value' = current_value
                          /\ pc' = "loop"
            /\ m > current_value =>
                  /\ pc' = "done"
                  /\ hc'.stuck_reason = "local_optimum"
                  /\ current_state' = current_state

LowerNeighbors(S, value) ==
    {nb \in Range(generate_all_neighbors(S)) : evaluate_state(nb) < value}

\* One iteration of SteepestAscentHillClimbing.solve, seen from outside.
SteepestIterationRule ==
    (/\ alg = "steepest" /\ pc = "loop"
     /\ iteration_count < max_iterations) =>
        IF LowerNeighbors(current_state, current_value) # {}
        THEN /\ current_state' \in MinimumNeighbors(current_state)
             /\ current_value' = evaluate_state(current_state')
             /\ current_value' < current_value
             /\ pc' = "loop"
        ELSE /\ pc' = "done"
             /\ current_state' = current_state
             /\ current_value' = current_value

\* C21: in each SteepestAscentHillClimbing iteration the driver moves to a
\* neighbor of minimum value over all enumerated neighbors, and only if that
\* minimum is strictly below the current value; the run stops in an
\* iteration exactly when no enumerated neighbor is strictly below.
C21_SteepestRule == [][SteepestIterationRule]_vars

\* A run that moved and then stopped with neighbors left, none lower.
C21_Witness ==
    /\ alg = "steepest" /\ pc = "done"
    /\ iteration_count >= 1
    /\ iteration_count < max_iterations
    /\ hc.stuck_iteration = <<iteration_count>>
    /\ Len(generate_all_neighbors(current_state)) # 0
    /\ LowerNeighbors(current_state, current_value) = {}

\* The stagnation bookkeeping of one SimulatedAnnealing iteration as stated:
\* improving means accepted with a value strictly below the best value
\* found before this iteration.
SAStagnationRule ==
    (alg = "sa" /\ pc = "loop" /\ iteration_count' = iteration_count + 1) =>
        LET improving == sa'.accepted /\ current_value' < best_value
            counter   == IF improving THEN 0 ELSE sa.stuck_counter + 1
        IN IF counter >= StuckThreshold
           THEN /\ sa'.stuck_count = sa.stuck_count + 1
                /\ sa'.stuck_counter = 0
           ELSE /\ sa'.stuck_count = sa.stuck_count
                /\ sa'.stuck_counter = counter

\* C22 as stated: in every SimulatedAnnealing iteration the stagnation
\* counter is incremented when the neighbor is rejected or accepted without
\* a value strictly lower than the best found before this iteration, and
\* reset otherwise; each time it reaches 10, stuck_count grows by one and the
\* counter is reset.
C22_StagnationCounter == [][SAStagnationRule]_vars

\* What relocating and exchanging mean on the containers of a State value,
\* said without the State methods: take the item out, put it at the end of
\* its target (t = 0 is a new container), drop what became empty.
DropEmpty(cs) == SelectSeq(cs, LAMBDA c : Len(c) > 0)

Without(c, item) == SelectSeq(c, LAMBDA x : x # item)

Relocated(S, f, item, t) ==
    LET cs == [i \in DOMAIN S.containers |->
                  IF i = f THEN Without(S.containers[i], item)
                  ELSE IF i = t THEN Append(S.containers[i], item)
                  ELSE S.containers[i]]
    IN [S EXCEPT !.containers =
           DropEmpty(IF t = 0 THEN Append(cs, <<item>>) ELSE cs)]

Exchanged(S, i, item1, j, item2) ==
    [S EXCEPT !.containers = DropEmpty(
        [k \in DOMAIN S.containers |->
            IF k = i THEN Append(Without(S.containers[k], item1), item2)
            ELSE IF k = j THEN Append(Without(S.containers[k], item2), item1)
            ELSE S.containers[k]])]

\* (container, item, target) of every relocation, and (i, item1, j, item2)
\* of every exchange across an unordered pair of distinct containers.
Relocations(S) ==
    {<<f, item, t>> \in (DOMAIN S.containers) \X (DOMAIN S.items)
                        \X (0..Len(S.containers)) :
        item \in Range(S.containers[f]) /\ t # f}

Exchanges(S) ==
    {<<i, item1, j, item2>> \in (DOMAIN S.containers) \X (DOMAIN S.items)
                                \X (DOMAIN S.containers) \X (DOMAIN S.items) :
        /\ i < j
        /\ item1 \in Range(S.containers[i])
        /\ item2 \in Range(S.containers[j])}

\* n * C, and the sum over i < j of |c_i| * |c_j|.
MoveCount(S) == Len(Flatten(S.containers)) * Len(S.containers)

SwapCount(S) ==
    SumSeq([i \in DOMAIN S.containers |->
        SumSeq([j \in DOMAIN S.containers |->
            IF i < j THEN Len(S.containers[i]) * Len(S.containers[j]) ELSE 0])])

\* Every call made for a candidate leaves the lists of the source as they
\* were and returns a State whose lists are all new ones.
CandidateIsNew(S, r) ==
    /\ r.error = "none"
    /\ deref(r.heap, ObjOf(S)) = S
    /\ \A a \in 1..Len(HeapOf(S)) : r.heap[a] = HeapOf(S)[a]
    /\ r.state.containers > Len(HeapOf(S))
    /\ \A k \in DOMAIN r.heap[r.state.containers] :
          r.heap[r.state.containers][k] > Len(HeapOf(S))

NeighborsAsStated(S) ==
    LET neighbors == generate_all_neighbors(S)
        moves     == SubSeq(neighbors, 1, MoveCount(S))
        swaps     == SubSeq(neighbors, MoveCount(S) + 1, Len(neighbors))
    IN /\ Len(neighbors) = MoveCount(S) + SwapCount(S)
       /\ \A x \in Range(moves) \cup {Relocated(S, m[1], m[2], m[3]) : m \in Relocations(S)} :
             Count(moves, x) =
                Cardinality({m \in Relocations(S) : Relocated(S, m[1], m[2], m[3]) = x})
       /\ \A x \in Range(swaps) \cup {Exchanged(S, e[1], e[2], e[3], e[4]) : e \in Exchanges(S)} :
             Count(swaps, x) =
                Cardinality({e \in Exchanges(S) : Exchanged(S, e[1], e[2], e[3], e[4]) = x})
       /\ \A m \in Relocations(S) :
             CandidateIsNew(S, move_item(HeapOf(S), ObjOf(S), m[2], m[1] - 1, m[3] - 1))
       /\ \A e \in Exchanges(S) :
             CandidateIsNew(S, swap_items(HeapOf(S), ObjOf(S), e[2], e[1] - 1, e[4], e[3] - 1))

\* C23: generate_all_neighbors(state) returns exactly one move candidate per
\* item and other existing container and one per item to a new container
\* (n * C of them), and one swap candidate per item pair across each
\* unordered pair of distinct containers; every candidate is a new State and
\* the source State is unchanged.
C23_NeighborsExactly ==
    (alg \in {"steepest", "stochastic", "sideways"} /\ pc = "loop") =>
        NeighborsAsStated(current_state)

\* A driver enumerating the neighbors of a State with moves to existing
\* containers, to a new one, and swaps.
C23_Witness ==
    /\ alg \in {"steepest", "stochastic", "sideways"} /\ pc = "loop"
    /\ iteration_count < max_iterations
    /\ Len(current_state.containers) = 2
    /\ Len(current_state.items) = 3
    /\ Len(generate_all_neighbors(current_state)) = 6 + 2

\* initial_temp * cooling_rate^k
RECURSIVE Cooled(_, _, _)
Cooled(temp, rate, k) ==
    IF k = 0 THEN temp ELSE FracTimes(Cooled(temp, rate, k - 1), rate)

\* An iteration never ends the run, and cools whatever its outcome.
SAIterationGoesOn ==
    (alg = "sa" /\ pc = "loop" /\ iteration_count < max_iterations) =>
        /\ pc' = "loop"
        /\ iteration_count' = iteration_count + 1
        /\ Len(history') = Len(history) + 1
        /\ sa'.temperature = FracTimes(sa.temperature, sa.cooling_rate)

\* The run ends only with its budget used; until then a neighbor is always
\* there to go on with.
SABudgetOnly ==
    /\ [](alg = "sa" /\ pc = "loop" /\ iteration_count < max_iterations =>
            generate_random_neighbor(sa.current_state) # {})
    /\ [](alg = "sa" /\ pc = "done" =>
            /\ iteration_count = max_iterations
            /\ Len(history) = 1 + max_iterations
            /\ \A i \in 1..max_iterations :
                  sa.temperatures[i] =
                     Cooled(sa.initial_temp, sa.cooling_rate, i - 1))
    /\ [][SAIterationGoesOn]_vars

\* C24: SimulatedAnnealing.solve terminates only by its iteration budget:
\* it performs exactly max_iterations iterations, history gains as many
\* entries, the temperature is multiplied by cooling_rate in every iteration
\* accepted or not, and neither stagnation nor a no-op neighbor ends the run
\* early.
C24_BudgetOnly == SABudgetOnly

\* A finished run of the full budget that ended on a single container (its
\* later neighbors are no-op copies) with the stagnation counter running.
C24_Witness ==
    /\ alg = "sa" /\ pc = "done"
    /\ iteration_count = MaxIterations
    /\ Len(sa.current_state.containers) = 1
    /\ sa.neighbor_state = sa.current_state
    /\ sa.stuck_counter >= 1

\* The third operation as stated: one item of a container of several is
\* taken out and put alone into a new container.
IsolateOutcomes(child) ==
    {Relocated(child, f, it, 0) :
        f \in {g \in DOMAIN child.containers : Len(child.containers[g]) >= 2},
        it \in DOMAIN child.items} \cap
    {Relocated(child, m[1], m[2], 0) : m \in Relocations(child)}

\* C25 as stated: mutation applied to a child (of two containers or more)
\* performs one of three operations, each a possible outcome: relocate one
\* item to a feasible container, dissolve a container and redistribute its
\* items, or isolate one item into its own new container; the result has no
\* empty container.
C25_MutationThreeOperations ==
    (alg = "ga" /\ pc = "mutate") =>
        \A k \in DOMAIN ga.children :
            LET child == ga.children[k]
                outs  == mutation(ga.items, ga.capacity, child)
            IN /\ \A m \in outs : NoEmptyContainer(m)
               /\ Len(child.containers) >= 2 =>
                     /\ \E ri \in DOMAIN child.containers :
                           \E cs \in MutationRelocate(ga.items, ga.capacity,
                                                      child.containers, ri) :
                               State(ga.items, ga.capacity, PruneEmpty(cs)) \in outs
                     /\ \E ri \in DOMAIN child.containers :
                           \E cs \in MutationDissolve(ga.items, ga.capacity,
                                                      child.containers, ri) :
                               State(ga.items, ga.capacity, PruneEmpty(cs)) \in outs
                     /\ IsolateOutcomes(child) \subseteq outs

\* The population a generation leaves: the two mutated children.
GAGenerationRule ==
    (alg = "ga" /\ pc = "mutate") =>
        /\ Len(ga'.population) = 2
        /\ \A k \in 1..2 :
              ga'.population[k] \in mutation(ga.items, ga.capacity, ga.children[k])

\* C26: in GeneticAlgorithm.solve the population holds population_size
\* individuals only before the first generation; after every generation it
\* is exactly the 2 mutated children of that generation, so from the second
\* generation on tournament selection samples from a population of 2.
C26_PopulationOfTwo ==
    /\ [](alg = "ga" /\ pc \in {"select", "crossover", "mutate", "done"} =>
            /\ Len(ga.fitness_list) = Len(ga.population)
            /\ Len(ga.population) =
                  IF iteration_count = 0 THEN ga.population_size ELSE 2)
    /\ [][GAGenerationRule]_vars

\* Parents of a second generation drawn from 2 individuals by a driver
\* whose population_size is not 2.
C26_Witness ==
    /\ alg = "ga" /\ pc = "crossover"
    /\ iteration_count >= 1
    /\ ga.population_size # 2
    /\ Len(ga.population) = 2

\* One SimulatedAnnealing iteration never adds a container to the current
\* State, and changes nothing once there is a single container.
SAContainersRule ==
    (alg = "sa" /\ pc = "loop" /\ iteration_count' = iteration_count + 1) =>
        /\ Len(sa'.current_state.containers) <= Len(sa.current_state.containers)
        /\ Len(sa.current_state.containers) = 1 =>
              /\ sa'.neighbor_state = sa.current_state
              /\ sa'.current_state = sa.current_state

\* C27: in a SimulatedAnnealing run started from a State without empty
\* containers the number of containers of the current State never increases
\* from one iteration to the next, and once the current State has a single
\* container every later neighbor is a no-op copy and the current State
\* never changes again.
C27_ContainersNeverIncrease ==
    /\ [](alg = "sa" /\ pc = "loop" => NoEmptyContainer(sa.current_state))
    /\ [][SAContainersRule]_vars

\* A run that came down to a single container and then drew a no-op copy.
C27_Witness ==
    /\ alg = "sa" /\ pc = "loop"
    /\ iteration_count >= 2
    /\ Len(initial_state.containers) >= 2
    /\ Len(sa.current_state.containers) = 1
    /\ sa.neighbor_state = sa.current_state
    /\ history[Len(history)] = history[Len(history) - 1]

\* Every State that is a partition of a catalog, whatever the order of its
\* containers and of the items in them.
PartitionsOf(items, capacity) ==
    {State(items, capacity, cs) : cs \in Arrangements(Len(items))}

\* C28: crossover depends on its parents only through the union of their
\* item sets: any two parent pairs that are partitions of the catalog give
\* the same set of possible child pairs; and with every item size within the
\* capacity no child has an overloaded container.
C28_CrossoverArrangementBlind ==
    alg = "ga" =>
        \E R \in {crossover(ga.items, ga.capacity, initial_state, initial_state)} :
            \* every pair of partitions of the driver's catalog
            /\ pc = "constructed" =>
                  \A Q1, Q2 \in PartitionsOf(ga.items, ga.capacity) :
                      crossover(ga.items, ga.capacity, Q1, Q2) = R
            \* the parents the driver crosses
            /\ pc = "crossover" =>
                  /\ crossover(ga.items, ga.capacity,
                               ga.population[ga.parents[1] + 1],
                               ga.population[ga.parents[2] + 1]) = R
                  /\ (\A i \in DOMAIN ga.items : ga.items[i] <= ga.capacity) =>
                        \A ch \in R : is_valid(ch[1]) /\ is_valid(ch[2])

\* A crossover of two different arrangements of a catalog of three items.
C28_Witness ==
    /\ alg = "ga" /\ pc = "crossover"
    /\ Len(ga.items) = 3
    /\ ga.population[ga.parents[1] + 1] # ga.population[ga.parents[2] + 1]
    /\ Cardinality(crossover(ga.items, ga.capacity,
                             ga.population[ga.parents[1] + 1],
                             ga.population[ga.parents[2] + 1])) > 1

\* C29: no driver mutates the State object passed in by the caller: through
\* construction and run of SteepestAscent, Stochastic, SidewaysMove,
\* SimulatedAnnealing or GeneticAlgorithm its containers stay as they were,
\* so each run of a sequence on the same State starts from the same
\* partition.
C29_CallerStateUntouched ==
    reuse # <<>> =>
        /\ deref(reuse.heap, CallerObj) = reuse.caller
        /\ \A a \in 1..Len(HeapOf(reuse.caller)) :
              reuse.heap[a] = HeapOf(reuse.caller)[a]
        /\ (reuse.phase = "constructed" /\ reuse.iterations = 0) =>
              /\ deref(reuse.heap, reuse.initial_state) = reuse.caller
              /\ deref(reuse.heap, reuse.current_state) = reuse.caller

\* A second run on the same State object that has moved away from it.
C29_Witness ==
    /\ reuse # <<>>
    /\ reuse.runs = 1
    /\ reuse.phase = "constructed"
    /\ reuse.iterations >= 1
    /\ Len(reuse.caller.items) = 3
    /\ reuse.alg \in {"steepest", "stochastic", "sideways", "sa"}
    /\ deref(reuse.heap, reuse.current_state) # reuse.caller

\* C30 as stated: in every SteepestAscent and Stochastic run the recorded
\* history is strictly decreasing and best_value equals the current value
\* after every move; a run given a sufficiently large max_iterations (here
\* MaxIterations, more than any run of these catalogs can move) ends at a
\* local optimum with stuck_iteration equal to the number of accepted moves
\* and less than max_iterations.
C30_StrictDescentToLocalOptimum ==
    alg \in {"steepest", "stochastic"} =>
        /\ \A i \in 1..(Len(history) - 1) : history[i + 1] < history[i]
        /\ pc = "loop" => best_value = current_value
        /\ (pc = "done" /\ max_iterations = MaxIterations) =>
              /\ iteration_count < max_iterations
              /\ hc.stuck_iteration = <<iteration_count>>
              /\ LowerNeighbors(current_state, current_value) = {}

=============================================================================
